---- MODULE Spec2Model ----
(***************************************************************************)
(* A model of squint's query layer: the lazy Result iterator               *)
(* (squint/result.py), the Query plan builder, optimizer and interpreter   *)
(* (squint/query.py) and the Select store adapter (squint/select.py).      *)
(*                                                                         *)
(* The module holds three state machines that share no state:              *)
(*   SpecResult   one flat (non-mapping) Result over map(function, source) *)
(*   SpecMapping  one mapping-typed Result whose values are nested Results *)
(*   SpecQuery    one Query against one Select table                       *)
(* Each specification freezes the variables of the other two.              *)
(***************************************************************************)
EXTENDS Integers, Sequences, FiniteSets, TLC

(***************************************************************************)
(* Bounds of the model and constants of the program.                       *)
(***************************************************************************)
\* Result._preview_length
_preview_length == 5

\* Longest source a Result is built over (longer than the lookahead).
MaxLen == 8

\* Most groups of a mapping-typed Result.
MaxGroups == 2

\* Most rows of the Select's table.
MaxRows == 2

\* Most steps chained onto a Query.
MaxSteps == 1
MaxQueries == 3
MaxSelectRows == 3
\* the longest collection an aggregate function is applied to
MaxData == 3
\* the most fields in one tuple, list or set of a selection
MaxFields == 2
\* the most create_index calls on one Select
MaxIndexCalls == 3
\* the most steps of a query whose plan is optimized
MaxPlanSteps == 2
\* the most members of an object a Query is made from
MaxObjectLen == 2

VARIABLES
    \* ---- flat Result (SpecResult) ----
    src,            \* the elements the underlying iterable would yield
    raiseAt,        \* the element on which map()'s function raises; 0: none
    closefuncGiven, \* whether Result(...) was given a closefunc
    phase,          \* "new", "live", or "ctor_raised" (__init__ raised)
    wrapped,        \* self.__wrapped__: what the iterator has left
    cache,          \* self._cache
    closefunc,      \* self._closefunc is set (truthy)
    started,        \* self._started_iteration
    closeCalls,     \* how many times the close callback was invoked
    yielded,        \* the elements returned by next(), in order
    previewed,      \* the list _preview() last formatted
    lastOp,         \* the last call made on the Result
    lastSignal,     \* how that call ended: "ok", "item", "stop", "error"
    closedEarly,    \* close() was called before the Result was exhausted
    nClose,         \* calls of close() and __del__() so far, counted to 2
    \* ---- mapping-typed Result (SpecMapping) ----
    msrc,           \* the groups: <<[k |-> key, xs |-> elements], ...>>
    mwrapped,       \* outer __wrapped__: the (key, nested Result) pairs left
    mcache,         \* outer _cache
    mstarted,       \* outer _started_iteration
    mfetched,       \* the pairs pulled and materialized so far
    mphase,         \* "live" or "fetched" (fetch() returned)
    mpreviewed,     \* what _preview() last formatted
    mpreviews,      \* _preview() calls so far, counted to 2
    \* ---- Query and Select (SpecQuery) ----
    table,          \* the rows of the Select's table, in insertion order
    qstate,         \* "none", "built", or the error Query(...) raised
    qbound,         \* Query(select, columns, **where): a store was given
    qcolumns,       \* the columns argument, as the caller gave it
    qwhere,         \* the where keywords, as the caller gave them
    qsource,        \* self.source: "Select" or "None"
    qargs,          \* self.args[0]: the normalized columns
    qkwds,          \* self.kwds: the where keywords
    qsteps,         \* self._query_steps
    outcome,        \* per optimize flag: the last execute()'s outcome
    \* Query objects and the mutable containers they refer to
    objs,           \* the Query objects made so far; fields hold references
    heapTuples,     \* the tuple objects: reference -> members
    heapDicts,      \* the dict objects: reference -> keyword items
    heapLists,      \* the list objects: reference -> query steps
    born,           \* per Query object: how it was made and what it was then
    lastExec,       \* the last execute() call and its receiver before it
    \* The mapping-typed Result whose nested Results read one iterator
    ssrc,           \* the groups of the source: <<[k, xs], ...>>
    shared,         \* what the shared iterator has left: keys and elements
    pending,        \* the lengths of the groups the generator has not made
    scache,         \* self._cache: nested Results [k, cache, left]
    sfetched,       \* the pairs fetch() has materialized, in order
    sphase,         \* "idle", "live", "fetched"
    \* Selecting from a table, and aggregating a collection
    selected,       \* the last select(columns, **where).fetch() and its result
    applied,        \* the collection an aggregate was applied to, the result
    \* Normalizing a selection
    normalized,     \* the selection given, normalized once and twice
    \* The user functions of one Select
    _user_function_dict,    \* function key -> SQLite function name
    created,        \* connection.create_function: name -> the function
    name_gen,       \* the number _user_function_name_gen gives next
    used,           \* the predicates already passed to this Select
    lastUse,        \* the last use of a predicate, and what it gave
    \* The indexes of one Select's table
    indexes,        \* sqlite_master: index name -> the columns it covers
    returned,       \* the column lists create_index has returned for
    lastIndex,      \* the last create_index call, and what it gave
    nIndexCalls,    \* how many create_index calls were made
    \* The SQL text of a statement
    statement,      \* the last statement made: its column references
    \* Optimizing an execution plan
    optimizing,     \* the plan given to _optimize, and what it returned
    \* The Result of a grouped selection, its groups read from one cursor
    gsrc,           \* the groups of the table: <<[k, xs], ...>>
    gcursor,        \* the rows the cursor has left: <<[k, x], ...>>
    currkey,        \* the key of the group itertools.groupby is at, 0 at start
    gcache,         \* the outer Result's _cache: nested Results [k, cache]
    held,           \* the nested Results pulled from the outer Result
    gdone,          \* the outer Result has signalled StopIteration
    \* A Query made from an object
    fromObject,     \* the object given to from_object, and what execute gave
    \* A step's Result over an upstream Result
    upstream,       \* the upstream Result: cache, wrapped, closefunc, calls
    downstream      \* the Result the step returned, and what was done to it

resVars == <<src, raiseAt, closefuncGiven, phase, wrapped, cache, closefunc,
             started, closeCalls, yielded, previewed, lastOp, lastSignal,
             closedEarly, nClose>>

mapVars == <<msrc, mwrapped, mcache, mstarted, mfetched, mphase, mpreviewed,
             mpreviews>>

qryVars == <<table, qstate, qbound, qcolumns, qwhere, qsource, qargs, qkwds,
             qsteps, outcome>>

chainVars == <<objs, heapTuples, heapDicts, heapLists, born, lastExec>>

selVars == <<selected, applied>>

sharedVars == <<ssrc, shared, pending, scache, sfetched, sphase>>

normVars == <<normalized>>

\* The variables of the specifications further down, and for each of them
\* all the variables it leaves alone.
regVars == <<_user_function_dict, created, name_gen, used, lastUse>>

idxVars == <<indexes, returned, lastIndex, nIndexCalls>>

sqlVars == <<statement>>

optVars == <<optimizing>>

grpVars == <<gsrc, gcursor, currkey, gcache, held, gdone>>

objVars == <<fromObject>>

pipeVars == <<upstream, downstream>>

laterVars ==
    <<normVars, regVars, idxVars, sqlVars, optVars, grpVars, objVars,
      pipeVars>>

earlierVars == <<resVars, mapVars, qryVars, chainVars, selVars, sharedVars>>

exceptNorm ==
    <<earlierVars, regVars, idxVars, sqlVars, optVars, grpVars, objVars,
      pipeVars>>

exceptReg ==
    <<earlierVars, normVars, idxVars, sqlVars, optVars, grpVars, objVars,
      pipeVars>>

exceptIdx ==
    <<earlierVars, normVars, regVars, sqlVars, optVars, grpVars, objVars,
      pipeVars>>

exceptSql ==
    <<earlierVars, normVars, regVars, idxVars, optVars, grpVars, objVars,
      pipeVars>>

exceptOpt ==
    <<earlierVars, normVars, regVars, idxVars, sqlVars, grpVars, objVars,
      pipeVars>>

exceptGrp ==
    <<earlierVars, normVars, regVars, idxVars, sqlVars, optVars, objVars,
      pipeVars>>

exceptObj ==
    <<earlierVars, normVars, regVars, idxVars, sqlVars, optVars, grpVars,
      pipeVars>>

exceptPipe ==
    <<earlierVars, normVars, regVars, idxVars, sqlVars, optVars, grpVars,
      objVars>>

vars == <<earlierVars, laterVars>>

(***************************************************************************)
(* squint/result.py: the flat Result.                                      *)
(***************************************************************************)
\* _TRUNCATED_BEGINNING and _TRUNCATED_ENDING, as elements of a preview list
\* (source elements are 1..MaxLen).
_TRUNCATED_BEGINNING == -1
_TRUNCATED_ENDING == -2

\* Sources: n distinct elements, in order.
Source(n) == [i \in 1..n |-> i]

\* Result.close: invoke the callback if one is set, then forget it.
closeNoReset(cf, calls) ==
    IF cf THEN [closefunc |-> cf, calls |-> calls + 1, raised |-> FALSE]
          ELSE [closefunc |-> cf, calls |-> calls, raised |-> FALSE]

close(cf, calls) ==
    IF cf THEN [closefunc |-> FALSE, calls |-> calls + 1, raised |-> FALSE]
          ELSE [closefunc |-> cf, calls |-> calls, raised |-> FALSE]

\* Result._refresh_cache for a non-mapping evaltype: append from the wrapped
\* iterator until the cache holds _preview_length + 1 elements or the
\* iterator stops. An error of the iterator (map's function raising on the
\* element ra) propagates; the element is consumed and what was appended
\* before stays in the cache.
RECURSIVE _refresh_cache(_, _, _)
_refresh_cache(c, w, ra) ==
    IF Len(c) >= _preview_length + 1 \/ w = <<>>
    THEN [cache |-> c, wrapped |-> w, raised |-> FALSE]
    ELSE IF Head(w) = ra
         THEN [cache |-> c, wrapped |-> Tail(w), raised |-> TRUE]
         ELSE _refresh_cache(Append(c, Head(w)), Tail(w), ra)

\* The inner __next__ of Result.__next__: serve the cache first, then the
\* wrapped iterator; on StopIteration call close() and re-raise.
nextWrappedFirst(c, w, ra, cf, calls) ==
    IF w # <<>> /\ Head(w) # ra
    THEN [signal |-> "item", item |-> Head(w), cache |-> c,
          wrapped |-> Tail(w), closefunc |-> cf, calls |-> calls]
    ELSE IF c # <<>>
    THEN [signal |-> "item", item |-> Head(c), cache |-> Tail(c),
          wrapped |-> w, closefunc |-> cf, calls |-> calls]
    ELSE [signal |-> "stop", item |-> 0, cache |-> c, wrapped |-> w,
          closefunc |-> close(cf, calls).closefunc,
          calls |-> close(cf, calls).calls]

nextNoClose(c, w, ra, cf, calls) ==
    IF c # <<>>
    THEN [signal |-> "item", item |-> Head(c), cache |-> Tail(c),
          wrapped |-> w, closefunc |-> cf, calls |-> calls]
    ELSE IF w = <<>>
    THEN [signal |-> "stop", item |-> 0, cache |-> c, wrapped |-> w,
          closefunc |-> cf, calls |-> calls]
    ELSE IF Head(w) = ra
    THEN [signal |-> "error", item |-> 0, cache |-> c, wrapped |-> Tail(w),
          closefunc |-> cf, calls |-> calls]
    ELSE [signal |-> "item", item |-> Head(w), cache |-> c,
          wrapped |-> Tail(w), closefunc |-> cf, calls |-> calls]

__next__(c, w, ra, cf, calls) ==
    IF c # <<>>
    THEN [signal |-> "item", item |-> Head(c), cache |-> Tail(c),
          wrapped |-> w, closefunc |-> cf, calls |-> calls]
    ELSE IF w = <<>>
    THEN [signal |-> "stop", item |-> 0, cache |-> c, wrapped |-> w,
          closefunc |-> close(cf, calls).closefunc,
          calls |-> close(cf, calls).calls]
    ELSE IF Head(w) = ra
    THEN [signal |-> "error", item |-> 0, cache |-> c, wrapped |-> Tail(w),
          closefunc |-> cf, calls |-> calls]
    ELSE [signal |-> "item", item |-> Head(w), cache |-> c,
          wrapped |-> Tail(w), closefunc |-> cf, calls |-> calls]

\* The list Result._preview formats for a non-mapping evaltype: a copy of
\* the cache with the element at index _preview_length replaced by the
\* ending ellipsis and, once iteration started, the beginning ellipsis in
\* front.
_preview(c, st) ==
    LET cut == IF Len(c) > _preview_length
               THEN [c EXCEPT ![_preview_length + 1] = _TRUNCATED_ENDING]
               ELSE c
    IN  IF cut # <<>> /\ st THEN <<_TRUNCATED_BEGINNING>> \o cut ELSE cut

\* The flat Result, not in use.
ResultIdle ==
    /\ src = <<>>
    /\ raiseAt = 0
    /\ closefuncGiven = FALSE
    /\ phase = "idle"
    /\ wrapped = <<>>
    /\ cache = <<>>
    /\ closefunc = FALSE
    /\ started = FALSE
    /\ closeCalls = 0
    /\ yielded = <<>>
    /\ previewed = <<>>
    /\ lastOp = "none"
    /\ lastSignal = "none"
    /\ closedEarly = FALSE
    /\ nClose = 0

\* The mapping-typed Result, not in use.
MappingIdle ==
    /\ msrc = <<>>
    /\ mwrapped = <<>>
    /\ mcache = <<>>
    /\ mstarted = FALSE
    /\ mfetched = <<>>
    /\ mphase = "idle"
    /\ mpreviewed = <<>>
    /\ mpreviews = 0

\* The Query and its Select, not in use.
QueryIdle ==
    /\ table = <<>>
    /\ qstate = "idle"
    /\ qbound = FALSE
    /\ qcolumns = [t |-> "none", f |-> "", xs |-> <<>>]
    /\ qwhere = <<>>
    /\ qsource = "None"
    /\ qargs = [t |-> "none", f |-> "", xs |-> <<>>]
    /\ qkwds = <<>>
    /\ qsteps = <<>>
    /\ outcome = <<>>

\* No Query objects followed.
ChainIdle ==
    /\ objs = <<>>
    /\ heapTuples = <<>>
    /\ heapDicts = <<>>
    /\ heapLists = <<>>
    /\ born = <<>>
    /\ lastExec = <<>>

\* Nothing selected, nothing aggregated.
SelectIdle ==
    /\ selected = <<>>
    /\ applied = <<>>

\* No Result over a shared iterator.
SharedIdle ==
    /\ ssrc = <<>>
    /\ shared = <<>>
    /\ pending = <<>>
    /\ scache = <<>>
    /\ sfetched = <<>>
    /\ sphase = "idle"

\* No selection normalized.
NormIdle == normalized = <<>>

\* No Select with user functions.
RegIdle ==
    /\ _user_function_dict = <<>>
    /\ created = <<>>
    /\ name_gen = 0
    /\ used = {}
    /\ lastUse = <<>>

\* No Select with indexes.
IdxIdle ==
    /\ indexes = <<>>
    /\ returned = {}
    /\ lastIndex = <<>>
    /\ nIndexCalls = 0

\* No statement made.
SqlIdle == statement = <<>>

\* No plan optimized.
OptIdle == optimizing = <<>>

\* No Result of a grouped selection.
GrpIdle ==
    /\ gsrc = <<>>
    /\ gcursor = <<>>
    /\ currkey = 0
    /\ gcache = <<>>
    /\ held = <<>>
    /\ gdone = FALSE

\* No Query made from an object.
ObjIdle == fromObject = <<>>

\* No step applied to an upstream Result.
PipeIdle ==
    /\ upstream = <<>>
    /\ downstream = <<>>

LaterIdle ==
    /\ NormIdle /\ RegIdle /\ IdxIdle /\ SqlIdle /\ OptIdle /\ GrpIdle
    /\ ObjIdle /\ PipeIdle

EarlierIdle ==
    /\ ResultIdle
    /\ MappingIdle
    /\ QueryIdle
    /\ ChainIdle
    /\ SelectIdle
    /\ SharedIdle

IdleExceptNorm ==
    /\ EarlierIdle /\ RegIdle /\ IdxIdle /\ SqlIdle /\ OptIdle /\ GrpIdle
    /\ ObjIdle /\ PipeIdle

IdleExceptReg ==
    /\ EarlierIdle /\ NormIdle /\ IdxIdle /\ SqlIdle /\ OptIdle /\ GrpIdle
    /\ ObjIdle /\ PipeIdle

IdleExceptIdx ==
    /\ EarlierIdle /\ NormIdle /\ RegIdle /\ SqlIdle /\ OptIdle /\ GrpIdle
    /\ ObjIdle /\ PipeIdle

IdleExceptSql ==
    /\ EarlierIdle /\ NormIdle /\ RegIdle /\ IdxIdle /\ OptIdle /\ GrpIdle
    /\ ObjIdle /\ PipeIdle

IdleExceptOpt ==
    /\ EarlierIdle /\ NormIdle /\ RegIdle /\ IdxIdle /\ SqlIdle /\ GrpIdle
    /\ ObjIdle /\ PipeIdle

IdleExceptGrp ==
    /\ EarlierIdle /\ NormIdle /\ RegIdle /\ IdxIdle /\ SqlIdle /\ OptIdle
    /\ ObjIdle /\ PipeIdle

IdleExceptObj ==
    /\ EarlierIdle /\ NormIdle /\ RegIdle /\ IdxIdle /\ SqlIdle /\ OptIdle
    /\ GrpIdle /\ PipeIdle

IdleExceptPipe ==
    /\ EarlierIdle /\ NormIdle /\ RegIdle /\ IdxIdle /\ SqlIdle /\ OptIdle
    /\ GrpIdle /\ ObjIdle

InitResult ==
    /\ \E n \in 0..MaxLen : src = Source(n)
    /\ raiseAt \in 0..Len(src)
    /\ closefuncGiven \in BOOLEAN
    /\ phase = "new"
    /\ wrapped = <<>>
    /\ cache = <<>>
    /\ closefunc = FALSE
    /\ started = FALSE
    /\ closeCalls = 0
    /\ yielded = <<>>
    /\ previewed = <<>>
    /\ lastOp = "none"
    /\ lastSignal = "none"
    /\ closedEarly = FALSE
    /\ nClose = 0
    /\ MappingIdle
    /\ QueryIdle
    /\ ChainIdle
    /\ SelectIdle
    /\ SharedIdle
    /\ LaterIdle

\* Result.__init__, as _map_data calls it: Result(map(function, iterable),
\* evaltype). The constructor prefetches through _refresh_cache, so an error
\* of the function on a prefetched element leaves the constructor.
ResultInit ==
    /\ phase = "new"
    /\ LET r == _refresh_cache(<<>>, src, raiseAt)
       IN  /\ phase' = IF r.raised THEN "ctor_raised" ELSE "live"
           /\ cache' = r.cache
           /\ wrapped' = r.wrapped
           /\ lastSignal' = IF r.raised THEN "error" ELSE "ok"
    /\ closefunc' = closefuncGiven
    /\ started' = FALSE
    /\ lastOp' = "init"
    /\ UNCHANGED <<src, raiseAt, closefuncGiven, closeCalls, yielded,
                   previewed, closedEarly, nClose, mapVars, qryVars,
                   chainVars, selVars,
                   sharedVars,
                   laterVars>>

\* next(result)
ResultNext ==
    /\ phase = "live"
    /\ LET r == __next__(cache, wrapped, raiseAt, closefunc, closeCalls)
       IN  /\ cache' = r.cache
           /\ wrapped' = r.wrapped
           /\ closefunc' = r.closefunc
           /\ closeCalls' = r.calls
           /\ lastSignal' = r.signal
           /\ yielded' = IF r.signal = "item" THEN Append(yielded, r.item)
                                              ELSE yielded
    /\ started' = TRUE
    /\ lastOp' = "next"
    /\ UNCHANGED <<src, raiseAt, closefuncGiven, phase, previewed,
                   closedEarly, nClose, mapVars, qryVars,
                   chainVars, selVars,
                   sharedVars,
                   laterVars>>

\* result.close()
ResultClose ==
    /\ phase = "live"
    /\ LET r == close(closefunc, closeCalls)
       IN  /\ closefunc' = r.closefunc
           /\ closeCalls' = r.calls
           /\ lastSignal' = IF r.raised THEN "error" ELSE "ok"
    /\ closedEarly' = (closedEarly \/ cache # <<>> \/ wrapped # <<>>)
    /\ nClose' = IF nClose < 2 THEN nClose + 1 ELSE nClose
    /\ lastOp' = "close"
    /\ UNCHANGED <<src, raiseAt, closefuncGiven, phase, wrapped, cache,
                   started, yielded, previewed, mapVars, qryVars,
                   chainVars, selVars,
                   sharedVars,
                   laterVars>>

\* result.__del__(), called directly or by the collector: close().
ResultDel ==
    /\ phase = "live"
    /\ LET r == close(closefunc, closeCalls)
       IN  /\ closefunc' = r.closefunc
           /\ closeCalls' = r.calls
           /\ lastSignal' = IF r.raised THEN "error" ELSE "ok"
    /\ nClose' = IF nClose < 2 THEN nClose + 1 ELSE nClose
    /\ lastOp' = "del"
    /\ UNCHANGED <<src, raiseAt, closefuncGiven, phase, wrapped, cache,
                   started, yielded, previewed, closedEarly, mapVars, qryVars,
                   chainVars, selVars,
                   sharedVars,
                   laterVars>>

\* result._refresh_cache()
ResultRefreshCache ==
    /\ phase = "live"
    /\ LET r == _refresh_cache(cache, wrapped, raiseAt)
       IN  /\ cache' = r.cache
           /\ wrapped' = r.wrapped
           /\ lastSignal' = IF r.raised THEN "error" ELSE "ok"
    /\ lastOp' = "refresh"
    /\ UNCHANGED <<src, raiseAt, closefuncGiven, phase, closefunc, started,
                   closeCalls, yielded, previewed, closedEarly, nClose,
                   mapVars, qryVars,
                   chainVars, selVars,
                   sharedVars,
                   laterVars>>

\* result._preview(): refresh the cache, then format a copy of it.
ResultPreview ==
    /\ phase = "live"
    /\ LET r == _refresh_cache(cache, wrapped, raiseAt)
       IN  /\ cache' = r.cache
           /\ wrapped' = r.wrapped
           /\ lastSignal' = IF r.raised THEN "error" ELSE "ok"
           /\ previewed' = IF r.raised THEN previewed
                                       ELSE _preview(r.cache, started)
    /\ lastOp' = "preview"
    /\ UNCHANGED <<src, raiseAt, closefuncGiven, phase, closefunc, started,
                   closeCalls, yielded, closedEarly, nClose, mapVars, qryVars,
                   chainVars, selVars,
                   sharedVars,
                   laterVars>>

NextResult ==
    \/ ResultInit
    \/ ResultNext
    \/ ResultClose
    \/ ResultDel
    \/ ResultRefreshCache
    \/ ResultPreview

SpecResult == InitResult /\ [][NextResult]_vars

(***************************************************************************)
(* squint/result.py: the mapping-typed Result whose values are Results.    *)
(* A nested Result is [k |-> key, cache |-> its _cache, wrapped |-> what   *)
(* its iterator has left]; each nested Result reads its own iterator.      *)
(***************************************************************************)
\* Result(iterable, list) for a group: the constructor prefetches.
NestedResult(g) ==
    LET r == _refresh_cache(<<>>, g.xs, 0)
    IN  [k |-> g.k, cache |-> r.cache, wrapped |-> r.wrapped]

\* Result._get_cache_length for a mapping evaltype: the nested Results'
\* cache lengths, added up (not the number of cached pairs).
pairCount(c) == Len(c)

RECURSIVE _get_cache_length(_)
_get_cache_length(c) ==
    IF c = <<>> THEN 0 ELSE Len(Head(c).cache) + _get_cache_length(Tail(c))

\* Result._refresh_cache for a mapping evaltype: append key-value pairs
\* until the cache length reaches _preview_length + 1.
RECURSIVE _refresh_cache_mapping(_, _)
_refresh_cache_mapping(c, w) ==
    IF _get_cache_length(c) >= _preview_length + 1 \/ w = <<>>
    THEN [cache |-> c, wrapped |-> w]
    ELSE _refresh_cache_mapping(Append(c, Head(w)), Tail(w))

\* The loop of Result._preview over a cached pair (k, v): v_iter is
\* v._cache itself, and the assignment v_iter[preview_length] writes the
\* ending ellipsis into the nested Result's own cache.
truncate(v) ==
    IF Len(v.cache) > _preview_length
    THEN [v EXCEPT !.cache[_preview_length + 1] = _TRUNCATED_ENDING]
    ELSE v

\* What _preview shows of a pair: Result(v_iter, evaltype).fetch() iterates
\* the (truncated) cache only.
shown(v) ==
    [k |-> v.k,
     xs |-> IF Len(v.cache) > _preview_length
            THEN [v.cache EXCEPT ![_preview_length + 1] = _TRUNCATED_ENDING]
            ELSE v.cache]

\* The list Result._preview formats for a mapping evaltype.
_preview_mapping(c, st) ==
    LET pairs == [i \in 1..Len(c) |-> shown(c[i])]
        cut == IF Len(pairs) > _preview_length
               THEN [pairs EXCEPT ![_preview_length + 1] =
                        [k |-> _TRUNCATED_ENDING, xs |-> <<>>]]
               ELSE pairs
    IN  IF cut # <<>> /\ st
        THEN <<[k |-> _TRUNCATED_BEGINNING, xs |-> <<>>]>> \o cut
        ELSE cut

\* func(v) of Result.fetch: v.evaltype(v) drains the nested Result, its
\* cache first and then its iterator.
materialize(v) == [k |-> v.k, xs |-> v.cache \o v.wrapped]

InitMapping ==
    /\ \E n \in 1..MaxGroups :
         \E lens \in [1..n -> 0..MaxLen] :
           msrc = [i \in 1..n |-> [k |-> i, xs |-> Source(lens[i])]]
    /\ LET nested == [i \in 1..Len(msrc) |-> NestedResult(msrc[i])]
           r == _refresh_cache_mapping(<<>>, nested)
       IN  /\ mcache = r.cache
           /\ mwrapped = r.wrapped
    /\ mstarted = FALSE
    /\ mfetched = <<>>
    /\ mphase = "live"
    /\ mpreviewed = <<>>
    /\ mpreviews = 0
    /\ ResultIdle
    /\ QueryIdle
    /\ ChainIdle
    /\ SelectIdle
    /\ SharedIdle
    /\ LaterIdle

\* result._preview() on the mapping-typed Result.
MappingPreview ==
    /\ mphase = "live"
    /\ LET r == _refresh_cache_mapping(mcache, mwrapped)
           c == [i \in 1..Len(r.cache) |-> truncate(r.cache[i])]
       IN  /\ mcache' = c
           /\ mwrapped' = r.wrapped
           /\ mpreviewed' = _preview_mapping(c, mstarted)
    /\ mpreviews' = IF mpreviews < 2 THEN mpreviews + 1 ELSE mpreviews
    /\ UNCHANGED <<msrc, mstarted, mfetched, mphase, resVars, qryVars,
                   chainVars, selVars,
                   sharedVars,
                   laterVars>>

\* One step of the generator in Result.fetch: pull the next pair (cache
\* first) and materialize its value.
MappingNext ==
    /\ mphase = "live"
    /\ mcache # <<>> \/ mwrapped # <<>>
    /\ IF mcache # <<>>
       THEN /\ mfetched' = Append(mfetched, materialize(Head(mcache)))
            /\ mcache' = Tail(mcache)
            /\ mwrapped' = mwrapped
       ELSE /\ mfetched' = Append(mfetched, materialize(Head(mwrapped)))
            /\ mwrapped' = Tail(mwrapped)
            /\ mcache' = mcache
    /\ mstarted' = TRUE
    /\ UNCHANGED <<msrc, mphase, mpreviewed, mpreviews, resVars, qryVars,
                   chainVars, selVars,
                   sharedVars,
                   laterVars>>

\* The end of Result.fetch: the outer Result signals end-of-data and the
\* mapping is returned.
MappingFetch ==
    /\ mphase = "live"
    /\ mcache = <<>> /\ mwrapped = <<>>
    /\ mphase' = "fetched"
    /\ mstarted' = TRUE
    /\ UNCHANGED <<msrc, mwrapped, mcache, mfetched, mpreviewed, mpreviews,
                   resVars, qryVars,
                   chainVars, selVars,
                   sharedVars,
                   laterVars>>

NextMapping ==
    \/ MappingPreview
    \/ MappingNext
    \/ MappingFetch

SpecMapping == InitMapping /\ [][NextMapping]_vars

(***************************************************************************)
(* squint/result.py: the mapping-typed Result whose nested Results read    *)
(* one shared iterator, as the groups of itertools.groupby or the islices  *)
(* of one iterator do. The iterator yields a key, then the elements of     *)
(* the key's group, then the next key. A nested Result is [k, cache,       *)
(* left], left the number of elements its islice may still take.           *)
(***************************************************************************)
\* The key and the elements of group i; no two are equal.
Key(i) == 0 - i
Element(i, j) == 10 * i + j

\* The first n members of a sequence, or all of it.
islice(xs, n) == SubSeq(xs, 1, IF n < Len(xs) THEN n ELSE Len(xs))

\* One turn of the generator that feeds the Result:
\*     yield next(shared), Result(islice(shared, n), evaltype=list)
\* The key is whatever the iterator yields next, and the constructor of the
\* nested Result prefetches up to _preview_length + 1 elements of its
\* islice. made is FALSE when the generator or the iterator has ended.
NextPair(sh, pend) ==
    IF pend = <<>> \/ sh = <<>>
    THEN [made |-> FALSE, pair |-> [k |-> 0, cache |-> <<>>, left |-> 0],
          shared |-> sh, pending |-> <<>>]
    ELSE LET n == Head(pend)
             prefetch == islice(Tail(sh),
                                IF n < _preview_length + 1
                                    THEN n ELSE _preview_length + 1)
         IN  [made |-> TRUE,
              pair |-> [k |-> Head(sh), cache |-> prefetch,
                        left |-> n - Len(prefetch)],
              shared |-> SubSeq(Tail(sh), Len(prefetch) + 1, Len(Tail(sh))),
              pending |-> Tail(pend)]

\* Result._refresh_cache for the mapping evaltype, the pairs coming from
\* the generator.
RECURSIVE _refresh_cache_shared(_, _, _)
_refresh_cache_shared(c, sh, pend) ==
    LET r == NextPair(sh, pend)
    IN  IF _get_cache_length(c) >= _preview_length + 1 \/ ~r.made
        THEN [cache |-> c, shared |-> sh, pending |-> pend]
        ELSE _refresh_cache_shared(Append(c, r.pair), r.shared, r.pending)

\* The stream of the groups: key, elements, key, elements, ...
RECURSIVE Stream(_)
Stream(groups) ==
    IF groups = <<>> THEN <<>>
    ELSE <<Head(groups).k>> \o Head(groups).xs \o Stream(Tail(groups))

InitShared ==
    /\ \E n \in 1..MaxGroups :
         \E lens \in [1..n -> 0..MaxLen] :
           ssrc = [i \in 1..n |->
                      [k |-> Key(i),
                       xs |-> [j \in 1..lens[i] |-> Element(i, j)]]]
    /\ LET r == _refresh_cache_shared(<<>>, Stream(ssrc),
                     [i \in 1..Len(ssrc) |-> Len(ssrc[i].xs)])
       IN  /\ scache = r.cache
           /\ shared = r.shared
           /\ pending = r.pending
    /\ sfetched = <<>>
    /\ sphase = "live"
    /\ ResultIdle
    /\ MappingIdle
    /\ QueryIdle
    /\ ChainIdle
    /\ SelectIdle
    /\ LaterIdle

\* One step of the generator in Result.fetch: pull the next pair, from the
\* cache or else from the generator, and materialize its value with
\* v.evaltype(v): the nested cache, then the rest of its islice.
SharedNext ==
    /\ sphase = "live"
    /\ scache # <<>> \/ NextPair(shared, pending).made
    /\ LET r == NextPair(shared, pending)
           v == IF scache # <<>> THEN Head(scache) ELSE r.pair
           sh == IF scache # <<>> THEN shared ELSE r.shared
           rest == islice(sh, v.left)
       IN  /\ sfetched' = Append(sfetched, [k |-> v.k, xs |-> v.cache \o rest])
           /\ shared' = SubSeq(sh, Len(rest) + 1, Len(sh))
           /\ scache' = IF scache # <<>> THEN Tail(scache) ELSE scache
           /\ pending' = IF scache # <<>> THEN pending ELSE r.pending
    /\ UNCHANGED <<ssrc, sphase, resVars, mapVars, qryVars, chainVars,
                   selVars,
                   laterVars>>

\* The end of Result.fetch: the Result signals end-of-data and the mapping
\* is returned.
SharedFetch ==
    /\ sphase = "live"
    /\ scache = <<>> /\ ~NextPair(shared, pending).made
    /\ sphase' = "fetched"
    /\ UNCHANGED <<ssrc, shared, pending, scache, sfetched, resVars,
                   mapVars, qryVars, chainVars, selVars,
                   laterVars>>

NextShared ==
    \/ SharedNext
    \/ SharedFetch

SpecShared == InitShared /\ [][NextShared]_vars

(***************************************************************************)
(* Values flowing through a query. A value is [t, v, xs]:                  *)
(*   None, numbers and text      t = "None", "num", "str"                  *)
(*   a row tuple                 t = "tuple", xs its members               *)
(*   a Result, materialized      t = its evaltype ("list", "set", "dict"), *)
(*                               xs its elements; a dict's elements are    *)
(*                               pairs, t = "pair", xs = <<key, value>>    *)
(*   the Select, a bound method  t = "Select", "_select", ...              *)
(*   a raised exception          t = the exception class                   *)
(***************************************************************************)
None == [t |-> "None", v |-> 0, xs |-> <<>>]
Num(n) == [t |-> "num", v |-> n, xs |-> <<>>]
\* A text value that is no numeral, like 'x'.
Text == [t |-> "str", v |-> 0, xs |-> <<>>]
\* The text at place n of the collating order (Text is the first, the
\* empty string), and the blob at place n; none of them is a numeral.
TextAt(n) == [t |-> "str", v |-> n, xs |-> <<>>]
Blob(n) == [t |-> "blob", v |-> n, xs |-> <<>>]
\* total / count, a float
Ratio(total, count) == [t |-> "ratio", v |-> total, xs |-> <<Num(count)>>]
Tuple(xs) == [t |-> "tuple", v |-> 0, xs |-> xs]
Evaluated(evaltype, xs) == [t |-> evaltype, v |-> 0, xs |-> xs]
Pair(k, x) == [t |-> "pair", v |-> 0, xs |-> <<k, x>>]
Object(name) == [t |-> name, v |-> 0, xs |-> <<>>]
Raised(cls) == [t |-> cls, v |-> 0, xs |-> <<>>]
Unset == [t |-> "unset", v |-> 0, xs |-> <<>>]

Exceptions == {"LookupError", "ValueError", "TypeError", "IndexError",
               "AttributeError", "OperationalError"}
IsRaised(x) == x.t \in Exceptions

\* The cell values of the table.
Values == {None, Num(1), Text}

\* Select.fieldnames: the columns of the table.
fieldnames == <<"A", "B">>

Range(f) == {f[i] : i \in DOMAIN f}

\* The first exception among the members of a sequence of values, or Unset.
RECURSIVE FirstRaised(_)
FirstRaised(xs) ==
    IF xs = <<>> THEN Unset
    ELSE IF IsRaised(Head(xs)) THEN Head(xs)
    ELSE FirstRaised(Tail(xs))

(***************************************************************************)
(* Selection specifications, as the caller writes them. A specification is *)
(* [t, f, xs]: t the Python type ("str", "tuple", "list", "set", "dict",   *)
(* "int"), f the text of a str, xs the members of a container; a dict's    *)
(* members are items, t = "item", xs = <<key, value>>.                     *)
(***************************************************************************)
NoColumns == [t |-> "none", f |-> "", xs |-> <<>>]
Str(f) == [t |-> "str", f |-> f, xs |-> <<>>]
Atom(f) == [t |-> "int", f |-> f, xs |-> <<>>]
Tup(xs) == [t |-> "tuple", f |-> "", xs |-> xs]
List(xs) == [t |-> "list", f |-> "", xs |-> xs]
SetOf(xs) == [t |-> "set", f |-> "", xs |-> xs]
Item(k, x) == [t |-> "item", f |-> "", xs |-> <<k, x>>]
Dict(items) == [t |-> "dict", f |-> "", xs |-> items]

\* isinstance(x, Sized), isinstance(x, Mapping), nonstringiter(x)
Sized(x) == x.t \in {"str", "tuple", "list", "set", "dict"}
Mapping(x) == x.t = "dict"
nonstringiter(x) == x.t \in {"tuple", "list", "set", "dict"}

\* tuple(x) for a selection: a str gives its characters (field names here
\* are one character long), a dict its keys.
tuple(x) ==
    IF x.t = "str" THEN <<x>>
    ELSE IF x.t = "dict" THEN [i \in 1..Len(x.xs) |-> x.xs[i].xs[1]]
    ELSE x.xs

\* _validate_fields: "" when it passes, else the exception class.
_validate_fields(fields) ==
    IF fields.t = "str" THEN ""
    ELSE IF ~nonstringiter(fields) THEN "TypeError"
    ELSE IF \E i \in 1..Len(tuple(fields)) : tuple(fields)[i].t # "str"
         THEN "ValueError"
         ELSE ""

\* _normalize_columns: [err, columns]; err is "" or the exception class.
_normalize_columns_mapping(columns) ==
    IF Len(columns.xs) # 1 THEN [err |-> "ValueError", columns |-> NoColumns]
    ELSE
    LET key == columns.xs[1].xs[1]
        value == columns.xs[1].xs[2]
        rebuilt == IF value.t = "str" \/ Len(value.xs) > 1
                   THEN Dict(<<Item(key, List(<<value>>))>>)
                   ELSE columns
    IN  IF Mapping(value)
        THEN [err |-> "ValueError", columns |-> NoColumns]
        ELSE IF ~Sized(value)    \* len(value)
        THEN [err |-> "TypeError", columns |-> NoColumns]
        ELSE IF _validate_fields(key) # ""
        THEN [err |-> _validate_fields(key), columns |-> NoColumns]
        ELSE IF tuple(value) = <<>>    \* tuple(value)[0]
        THEN [err |-> "IndexError", columns |-> NoColumns]
        ELSE IF _validate_fields(tuple(value)[1]) # ""
        THEN [err |-> _validate_fields(tuple(value)[1]),
              columns |-> NoColumns]
        ELSE [err |-> "", columns |-> rebuilt]

_normalize_columns(columns) ==
    IF ~Sized(columns) THEN [err |-> "ValueError", columns |-> NoColumns]
    ELSE IF Mapping(columns) THEN _normalize_columns_mapping(columns)
    ELSE
    LET wrapped_ == IF columns.t = "str" \/ Len(columns.xs) > 1
                    THEN List(<<columns>>)
                    ELSE columns
    IN  IF tuple(wrapped_) = <<>>    \* tuple(columns)[0]
        THEN [err |-> "IndexError", columns |-> NoColumns]
        ELSE IF _validate_fields(tuple(wrapped_)[1]) # ""
        THEN [err |-> _validate_fields(tuple(wrapped_)[1]),
              columns |-> NoColumns]
        ELSE [err |-> "", columns |-> wrapped_]

\* _parse_columns: the (key, value) of a mapping's only item, else
\* ((), columns). An empty mapping raises IndexError.
_parse_columns(columns) ==
    IF Mapping(columns)
    THEN IF columns.xs = <<>>
         THEN [err |-> "IndexError", key |-> NoColumns, value |-> NoColumns]
         ELSE [err |-> "", key |-> columns.xs[1].xs[1],
               value |-> columns.xs[1].xs[2]]
    ELSE [err |-> "", key |-> Tup(<<>>), value |-> columns]

\* _flatten: the leaves of a nested iterable, in order, as the names they
\* are looked up by. Iterating a dict gives its keys.
RECURSIVE _flatten(_)
RECURSIVE _flatten_all(_)
_flatten(x) ==
    IF nonstringiter(x) THEN _flatten_all(tuple(x)) ELSE <<x.f>>
_flatten_all(xs) ==
    IF xs = <<>> THEN <<>> ELSE _flatten(Head(xs)) \o _flatten_all(Tail(xs))

\* Select._assert_fields_exist: "" when every name is a column, else
\* LookupError.
_assert_fields_exist_skip(names) == ""

_assert_fields_exist(names) ==
    IF \E i \in 1..Len(names) : names[i] \notin Range(fieldnames)
    THEN "LookupError"
    ELSE ""

\* where.keys()
keys(kwds) == [i \in 1..Len(kwds) |-> kwds[i].key]

\* BaseQuery.__init__: [err, source, args, kwds]. With a Select given, the
\* fields of the columns as given and of the where keywords are looked up
\* first; the columns are normalized after that.
Query__init__(bound, columns, where) ==
    LET parsed == _parse_columns(columns)
        flattened == _flatten(parsed.key) \o _flatten(parsed.value)
                     \o keys(where)
        lookup == IF ~bound THEN ""
                  ELSE IF parsed.err # "" THEN parsed.err
                  ELSE _assert_fields_exist(flattened)
        normal == _normalize_columns(columns)
    IN  IF lookup # ""
        THEN [err |-> lookup, source |-> "None", args |-> NoColumns,
              kwds |-> <<>>]
        ELSE IF normal.err # ""
        THEN [err |-> normal.err, source |-> "None", args |-> NoColumns,
              kwds |-> <<>>]
        ELSE [err |-> "", source |-> IF bound THEN "Select" ELSE "None",
              args |-> normal.columns, kwds |-> where]

(***************************************************************************)
(* The store: what SQLite does with the statements Select builds.          *)
(***************************************************************************)
\* A sort key that leaves the storage class out.
sortkeyByValue(x) == <<1, x.v>>

\* _sqlite_sortkey, which copies SQLite's ORDER BY: NULL, then numbers by
\* value, then text, then blobs. A text or blob value has its place in the
\* collating order as v.
_sqlite_sortkey(x) ==
    IF x.t = "None" THEN <<0, 0>>
    ELSE IF x.t = "num" THEN <<1, x.v>>
    ELSE IF x.t = "str" THEN <<2, x.v>>
    ELSE IF x.t = "blob" THEN <<3, x.v>>
    ELSE <<4, 0>>

KeyLess(a, b) ==
    \/ _sqlite_sortkey(a)[1] < _sqlite_sortkey(b)[1]
    \/ /\ _sqlite_sortkey(a)[1] = _sqlite_sortkey(b)[1]
       /\ _sqlite_sortkey(a)[2] < _sqlite_sortkey(b)[2]

\* Row r sorts before row s on their first n columns.
RECURSIVE RowLess(_, _, _)
RowLess(r, s, n) ==
    IF n = 0 THEN FALSE
    ELSE IF KeyLess(Head(r), Head(s)) THEN TRUE
    ELSE IF KeyLess(Head(s), Head(r)) THEN FALSE
    ELSE RowLess(Tail(r), Tail(s), n - 1)

RECURSIVE InsertSorted(_, _, _)
InsertSorted(r, rows, n) ==
    IF rows = <<>> THEN <<r>>
    ELSE IF RowLess(r, Head(rows), n) THEN <<r>> \o rows
    ELSE <<Head(rows)>> \o InsertSorted(r, Tail(rows), n)

\* ORDER BY the first n columns (stable); without the clause the rows come
\* in table order.
NoOrderBy(rows, n) == rows

RECURSIVE OrderBy(_, _)
OrderBy(rows, n) ==
    IF rows = <<>> THEN <<>>
    ELSE InsertSorted(rows[Len(rows)],
                      OrderBy(SubSeq(rows, 1, Len(rows) - 1), n), n)

\* DISTINCT: the first of equal rows is kept.
RECURSIVE Distinct(_)
Distinct(rows) ==
    IF rows = <<>> THEN <<>>
    ELSE LET front == Distinct(SubSeq(rows, 1, Len(rows) - 1))
             last == rows[Len(rows)]
         IN  IF last \in Range(front) THEN front ELSE Append(front, last)

\* WHERE key=? AND ...: a NULL equals nothing.
Matches(row, kwds) ==
    \A i \in 1..Len(kwds) :
        /\ row[kwds[i].key].t # "None"
        /\ kwds[i].val.t # "None"
        /\ row[kwds[i].key] = kwds[i].val

Project(row, cols) == [j \in 1..Len(cols) |-> row[cols[j]]]

RECURSIVE SumOf(_)
SumOf(xs) == IF xs = <<>> THEN 0 ELSE Head(xs) + SumOf(Tail(xs))

\* SQLite's SUM(col), COUNT(col), SUM(DISTINCT col), COUNT(DISTINCT col)
\* over the cells of one group: NULLs are left out, text that is no numeral
\* counts as 0, SUM of nothing is NULL.
SqlAggregate(sqlfunc, cells, distinct) ==
    LET nonnull == SelectSeq(cells, LAMBDA x : x.t # "None")
        xs == IF distinct THEN Distinct(nonnull) ELSE nonnull
        reals == [i \in 1..Len(xs) |-> IF xs[i].t = "num" THEN xs[i].v ELSE 0]
    IN  IF sqlfunc = "COUNT" THEN Num(Len(xs))
        ELSE IF sqlfunc = "SUM"
        THEN IF xs = <<>> THEN None ELSE Num(SumOf(reals))
        ELSE Raised("OperationalError")

\* Select._build_where_clause and Select._execute_query for
\* SELECT [DISTINCT] cols FROM table [WHERE ...] [ORDER BY the n key cols]:
\* [err, rows]. A where keyword goes into the statement as it is, so one
\* that is no column makes SQLite's error, re-raised with its own class.
_execute_query(cols, distinct, n, kwds) ==
    IF \E i \in 1..Len(kwds) : kwds[i].key \notin Range(fieldnames)
    THEN [err |-> "OperationalError", rows |-> <<>>]
    ELSE LET filtered == SelectSeq(table, LAMBDA r : Matches(r, kwds))
             rows == [i \in 1..Len(filtered) |-> Project(filtered[i], cols)]
             unique == IF distinct THEN Distinct(rows) ELSE rows
         IN  [err |-> "", rows |-> IF n > 0 THEN OrderBy(unique, n)
                                            ELSE unique]

\* The same for SELECT keys, FUNC([DISTINCT] col), ... [GROUP BY keys].
_execute_query_aggregate(sqlfunc, keycols, valcols, distinct, kwds) ==
    IF \E i \in 1..Len(kwds) : kwds[i].key \notin Range(fieldnames)
    THEN [err |-> "OperationalError", rows |-> <<>>]
    ELSE
    LET filtered == SelectSeq(table, LAMBDA r : Matches(r, kwds))
        n == Len(keycols)
        groupkeys == OrderBy(Distinct([i \in 1..Len(filtered) |->
                                          Project(filtered[i], keycols)]), n)
        column(rows, c) == [i \in 1..Len(rows) |-> rows[i][c]]
        aggregates(rows) ==
            [j \in 1..Len(valcols) |->
                SqlAggregate(sqlfunc, column(rows, valcols[j]), distinct)]
        group(k) == SelectSeq(filtered, LAMBDA r : Project(r, keycols) = k)
    IN  [err |-> "",
         rows |-> IF n = 0 THEN <<aggregates(filtered)>>
                  ELSE [g \in 1..Len(groupkeys) |->
                           groupkeys[g] \o aggregates(group(groupkeys[g]))]]

(***************************************************************************)
(* squint/select.py: shaping rows.                                         *)
(***************************************************************************)
\* Select._format_result_group: the rows as elements of the inner type, in
\* a Result of the outer type.
_format_result_group(columns, rows) ==
    LET inner == tuple(columns)[1]
    IN  Evaluated(columns.t,
                  [i \in 1..Len(rows) |->
                      IF inner.t = "str" THEN rows[i][1]
                                         ELSE Tuple(rows[i])])

\* itertools.groupby on the first n columns: runs of adjacent rows with
\* equal keys, as <<[key, rows], ...>>.
RECURSIVE groupby(_, _)
groupby(rows, n) ==
    IF rows = <<>> THEN <<>>
    ELSE LET front == groupby(SubSeq(rows, 1, Len(rows) - 1), n)
             last == rows[Len(rows)]
             k == SubSeq(last, 1, n)
         IN  IF front # <<>> /\ front[Len(front)].key = k
             THEN [front EXCEPT ![Len(front)].rows = Append(@, last)]
             ELSE Append(front, [key |-> k, rows |-> <<last>>])

\* dict(pairs): a later pair with an equal key replaces the value.
RECURSIVE dict(_)
dict(pairs) ==
    IF pairs = <<>> THEN <<>>
    ELSE LET front == dict(SubSeq(pairs, 1, Len(pairs) - 1))
             last == pairs[Len(pairs)]
         IN  IF \E i \in 1..Len(front) : front[i].xs[1] = last.xs[1]
             THEN [i \in 1..Len(front) |->
                      IF front[i].xs[1] = last.xs[1] THEN last ELSE front[i]]
             ELSE Append(front, last)

\* Select._format_results
_format_results(columns, rows) ==
    IF ~Mapping(columns) THEN _format_result_group(columns, rows)
    ELSE
    LET key == columns.xs[1].xs[1]
        value == columns.xs[1].xs[2]
        slice_index == IF key.t = "str" THEN 1 ELSE Len(key.xs)
        inner == tuple(value)[1]
        index == IF inner.t = "str" THEN 1 ELSE Len(inner.xs)
        grouped == groupby(rows, slice_index)
        keyof(g) == IF key.t = "str" THEN g.key[1] ELSE Tuple(g.key)
        sliced(g) == [i \in 1..Len(g.rows) |->
                         SubSeq(g.rows[i], Len(g.rows[i]) - index + 1,
                                Len(g.rows[i]))]
    IN  Evaluated("dict",
                  dict([g \in 1..Len(grouped) |->
                           Pair(keyof(grouped[g]),
                                _format_result_group(value,
                                                     sliced(grouped[g])))]))

\* Select._parse_key_value: [err, key_columns, value_columns].
_parse_key_value(key, value) ==
    LET names(xs) == [i \in 1..Len(xs) |-> xs[i].f]
        key_columns == names(tuple(key))
        value_columns == names(tuple(tuple(value)[1]))
    IN  IF _assert_fields_exist(key_columns) # ""
        THEN [err |-> "LookupError", key_columns |-> <<>>,
              value_columns |-> <<>>]
        ELSE IF _assert_fields_exist(value_columns) # ""
        THEN [err |-> "LookupError", key_columns |-> <<>>,
              value_columns |-> <<>>]
        ELSE [err |-> "", key_columns |-> key_columns,
              value_columns |-> value_columns]

\* Select._select
_select(columns, kwds) ==
    LET parsed == _parse_columns(columns)
        kv == _parse_key_value(parsed.key, parsed.value)
        cursor == _execute_query(kv.key_columns \o kv.value_columns,
                                 parsed.value.t = "set",
                                 Len(kv.key_columns), kwds)
    IN  IF kv.err # "" THEN Raised(kv.err)
        ELSE IF cursor.err # "" THEN Raised(cursor.err)
        ELSE _format_results(columns, cursor.rows)

\* Select._select_aggregate: next(results) for a selection without key,
\* else the mapping of each key to next(v).
_select_aggregate(sqlfunc, columns, kwds) ==
    LET parsed == _parse_columns(columns)
        kv == _parse_key_value(parsed.key, parsed.value)
        cursor == _execute_query_aggregate(sqlfunc, kv.key_columns,
                                           kv.value_columns,
                                           parsed.value.t = "set", kwds)
        results == _format_results(columns, cursor.rows)
    IN  IF kv.err # "" THEN Raised(kv.err)
        ELSE IF cursor.err # "" THEN Raised(cursor.err)
        ELSE IF Mapping(columns)
        THEN Evaluated("dict",
                       [i \in 1..Len(results.xs) |->
                           Pair(results.xs[i].xs[1],
                                results.xs[i].xs[2].xs[1])])
        ELSE results.xs[1]

(***************************************************************************)
(* squint/query.py: the aggregates computed in Python.                     *)
(***************************************************************************)
\* isinstance(x, BaseElement): not iterable, or a str, tuple or mapping.
BaseElement(x) == x.t \in {"None", "num", "str", "blob", "ratio", "tuple"}

\* _sqlite_cast_as_real: float(value), with 0.0 for text that is no
\* numeral (ValueError). float() of a tuple raises TypeError, which is
\* not caught.
_sqlite_cast_as_real(value) ==
    IF value.t = "num" THEN value
    ELSE IF value.t \in {"str", "blob"} THEN Num(0)
    ELSE Raised("TypeError")

_sqlite_sum(iterable) ==
    LET elements == IF BaseElement(iterable) THEN <<iterable>>
                                             ELSE iterable.xs
        nonnull == SelectSeq(elements, LAMBDA x : x # None)
        reals == [i \in 1..Len(nonnull) |-> _sqlite_cast_as_real(nonnull[i])]
    IN  IF nonnull = <<>> THEN None
        ELSE IF FirstRaised(reals) # Unset THEN FirstRaised(reals)
        ELSE Num(SumOf([i \in 1..Len(reals) |-> reals[i].v]))

\* _sqlite_count that counts the values bool() takes for true.
countTruthy(iterable) ==
    LET elements == IF BaseElement(iterable) THEN <<iterable>>
                                             ELSE iterable.xs
    IN  Num(Len(SelectSeq(elements,
                LAMBDA x : x \notin {None, Num(0), TextAt(0), Blob(0)})))

_sqlite_count(iterable) ==
    LET elements == IF BaseElement(iterable) THEN <<iterable>>
                                             ELSE iterable.xs
    IN  Num(Len(SelectSeq(elements, LAMBDA x : x # None)))

\* _sqlite_avg: total / count over the elements that are not None, None
\* when there is none.
_sqlite_avg(iterable) ==
    LET elements == IF BaseElement(iterable) THEN <<iterable>>
                                             ELSE iterable.xs
        nonnull == SelectSeq(elements, LAMBDA x : x # None)
        reals == [i \in 1..Len(nonnull) |-> _sqlite_cast_as_real(nonnull[i])]
    IN  IF FirstRaised(reals) # Unset THEN FirstRaised(reals)
        ELSE IF nonnull = <<>> THEN None
        ELSE Ratio(SumOf([i \in 1..Len(reals) |-> reals[i].v]), Len(nonnull))

\* min(xs, key=_sqlite_sortkey) and max(xs, key=_sqlite_sortkey) for xs
\* with a member: the first of the least, the first of the greatest.
RECURSIVE min(_)
min(xs) ==
    IF Len(xs) = 1 THEN xs[1]
    ELSE LET m == min(SubSeq(xs, 1, Len(xs) - 1))
         IN  IF KeyLess(xs[Len(xs)], m) THEN xs[Len(xs)] ELSE m

RECURSIVE max(_)
max(xs) ==
    IF Len(xs) = 1 THEN xs[1]
    ELSE LET m == max(SubSeq(xs, 1, Len(xs) - 1))
         IN  IF KeyLess(m, xs[Len(xs)]) THEN xs[Len(xs)] ELSE m

\* _sqlite_min: a BaseElement is returned as it is; else the least of the
\* elements that are not None, None by default.
_sqlite_min(iterable) ==
    IF BaseElement(iterable) THEN iterable
    ELSE LET nonnull == SelectSeq(iterable.xs, LAMBDA x : x # None)
         IN  IF nonnull = <<>> THEN None ELSE min(nonnull)

\* _sqlite_max: a BaseElement is returned as it is; else the greatest of
\* the elements, None among them, None by default.
_sqlite_max(iterable) ==
    IF BaseElement(iterable) THEN iterable
    ELSE IF iterable.xs = <<>> THEN None ELSE max(iterable.xs)

\* function(x) for the functions a step can name.
Call(function, x) ==
    IF function = "_sqlite_sum" THEN _sqlite_sum(x)
    ELSE IF function = "_sqlite_count" THEN _sqlite_count(x)
    ELSE IF function = "_sqlite_avg" THEN _sqlite_avg(x)
    ELSE IF function = "_sqlite_min" THEN _sqlite_min(x)
    ELSE IF function = "_sqlite_max" THEN _sqlite_max(x)
    ELSE Raised("TypeError")

\* _apply_to_data: to each value of a collection of items, else to the
\* data itself. The result is shown as fetched, so an exception of a lazy
\* value is the outcome.
_apply_to_data(function, data_iterator) ==
    IF data_iterator.t = "dict"
    THEN LET values == [i \in 1..Len(data_iterator.xs) |->
                           Call(function, data_iterator.xs[i].xs[2])]
         IN  IF FirstRaised(values) # Unset THEN FirstRaised(values)
             ELSE Evaluated("dict",
                            [i \in 1..Len(data_iterator.xs) |->
                                Pair(data_iterator.xs[i].xs[1], values[i])])
    ELSE Call(function, data_iterator)

(***************************************************************************)
(* squint/query.py: the execution plan.                                    *)
(***************************************************************************)
\* A step argument that is a name: a function, an attribute, an SQL
\* function. It has the shape of a selection so that both can be arguments.
Name(f) == [t |-> "name", f |-> f, xs |-> <<>>]
RESULT_TOKEN == [t |-> "RESULT_TOKEN", f |-> "", xs |-> <<>>]

_execution_step(function, args, kwds) ==
    [function |-> function, args |-> args, kwds |-> kwds]

\* _query_step(name, args, kwds): a step as a Query keeps it. The members
\* of args are the names of the functions given to the method.
_query_step(name, args, kwds) ==
    [name |-> name, args |-> args, kwds |-> kwds]

\* The query methods that add a step, as far as SpecQuery runs them.
StepNames == {"sum", "count"}

\* BaseQuery._translate_step
_translate_step(query_step) ==
    LET name == query_step.name
        query_args == query_step.args
        first(function) ==
            _execution_step(function, <<Name(query_args[1]), RESULT_TOKEN>>,
                            <<>>)
        aggregate(function) ==
            _execution_step("_apply_to_data",
                            <<Name(function), RESULT_TOKEN>>, <<>>)
    IN  IF name = "map" THEN first("_map_data")
        ELSE IF name = "starmap" THEN first("_starmap_data")
        ELSE IF name = "filter" THEN first("_filter_data")
        ELSE IF name = "reduce"
        THEN _execution_step("_reduce_data",
                             <<Name(query_args[1]), RESULT_TOKEN,
                               Name(query_args[2])>>, <<>>)
        ELSE IF name = "apply" THEN first("_apply_data")
        ELSE IF name = "sum" THEN aggregate("_sqlite_sum")
        ELSE IF name = "count" THEN aggregate("_sqlite_count")
        ELSE IF name = "avg" THEN aggregate("_sqlite_avg")
        ELSE IF name = "min" THEN aggregate("_sqlite_min")
        ELSE IF name = "max" THEN aggregate("_sqlite_max")
        ELSE IF name = "distinct"
        THEN _execution_step("_sqlite_distinct", <<RESULT_TOKEN>>, <<>>)
        ELSE IF name = "flatten"
        THEN _execution_step("_flatten_data", <<RESULT_TOKEN>>, <<>>)
        ELSE IF name = "unwrap"
        THEN _execution_step("_unwrap_data", <<RESULT_TOKEN>>, <<>>)
        ELSE _execution_step("ValueError", <<>>, <<>>)

\* BaseQuery._get_execution_plan, for a source that is a Select; args and
\* kwds are self.args[0] and self.kwds.
_get_execution_plan(args, kwds, query_steps) ==
    << _execution_step("getattr", <<RESULT_TOKEN, Name("_select")>>, <<>>),
       _execution_step("RESULT_TOKEN", <<args>>, kwds) >>
    \o [i \in 1..Len(query_steps) |-> _translate_step(query_steps[i])]

\* BaseQuery._get_execution_plan, for a source that is no Select.
_get_execution_plan_iterable(query_steps) ==
    << _execution_step("_make_dataresult", <<RESULT_TOKEN>>, <<>>) >>
    \o [i \in 1..Len(query_steps) |-> _translate_step(query_steps[i])]

\* BaseQuery._optimize: the rewritten plan, or <<>> for None.
_optimize_off(execution_plan) == <<>>

_optimize(execution_plan) ==
    IF Len(execution_plan) < 3 THEN <<>>
    ELSE
    LET step_0 == execution_plan[1]
        step_1 == execution_plan[2]
        step_2 == execution_plan[3]
        remaining_steps == SubSeq(execution_plan, 4, Len(execution_plan))
        func_dict(f) == IF f = "_sqlite_sum" THEN "SUM"
                        ELSE IF f = "_sqlite_count" THEN "COUNT"
                        ELSE IF f = "_sqlite_avg" THEN "AVG"
                        ELSE IF f = "_sqlite_min" THEN "MIN"
                        ELSE IF f = "_sqlite_max" THEN "MAX"
                        ELSE ""
    IN  IF step_0 # _execution_step("getattr",
                                    <<RESULT_TOKEN, Name("_select")>>, <<>>)
        THEN <<>>
        ELSE IF step_2.function = "_apply_to_data"
        THEN IF func_dict(step_2.args[1].f) # ""
             THEN << _execution_step("getattr",
                         <<RESULT_TOKEN, Name("_select_aggregate")>>, <<>>),
                     _execution_step(step_1.function,
                         <<Name(func_dict(step_2.args[1].f))>> \o step_1.args,
                         step_1.kwds) >>
                  \o remaining_steps
             ELSE <<>>
        ELSE IF step_2 = _execution_step("_sqlite_distinct",
                                         <<RESULT_TOKEN>>, <<>>)
        THEN << _execution_step("getattr",
                    <<RESULT_TOKEN, Name("_select_distinct")>>, <<>>),
                step_1 >> \o remaining_steps
        ELSE <<>>

\* _get_evaltype of a collection: its class.
_get_evaltype(obj) == obj.t

\* _make_dataresult: Result(iterable, evaltype), a Result over the members
\* of the iterable that evaluates to the type of the iterable.
_make_dataresult(iterable) ==
    Evaluated(_get_evaltype(iterable), iterable.xs)

\* One turn of the loop of execute(): function(*args, **keywords) with the
\* token replaced by the result so far.
ApplyStep(step, result) ==
    IF step.function = "getattr" THEN Object(step.args[2].f)
    ELSE IF step.function = "RESULT_TOKEN" /\ result.t = "_select"
    THEN _select(step.args[1], step.kwds)
    ELSE IF step.function = "RESULT_TOKEN" /\ result.t = "_select_aggregate"
    THEN _select_aggregate(step.args[1].f, step.args[2], step.kwds)
    ELSE IF step.function = "_apply_to_data"
    THEN _apply_to_data(step.args[1].f, result)
    ELSE IF step.function = "_make_dataresult"
    THEN _make_dataresult(result)
    ELSE Raised("TypeError")

RECURSIVE RunPlan(_, _)
RunPlan(execution_plan, result) ==
    IF execution_plan = <<>> \/ IsRaised(result) THEN result
    ELSE RunPlan(Tail(execution_plan), ApplyStep(Head(execution_plan), result))

\* The source argument of execute(): None, a Select, or a list with
\* members, which is no store.
Sources == {"None", "Select", "list"}

\* bool(source)
Truthy(source) == source \in {"Select", "list"}

\* BaseQuery._validate_source: "" or the exception class.
_validate_source(source) == IF source = "Select" THEN "" ELSE "TypeError"

\* A Query that keeps the Result of its first execution and hands it out
\* again, consumed.
executeOnce(source, optimize) ==
    IF outcome[optimize].ran THEN Evaluated("list", <<>>)
    ELSE Evaluated("list", <<Num(1)>>)

\* BaseQuery.execute(source, optimize), with the result fetched.
execute(source, optimize) ==
    LET execution_plan == _get_execution_plan(qargs, qkwds, qsteps)
        optimized == _optimize(execution_plan)
        result == RunPlan(IF optimize /\ optimized # <<>>
                              THEN optimized ELSE execution_plan,
                          Object("Select"))
    IN  IF Truthy(source)
        THEN IF qsource = "Select" THEN Raised("ValueError")
             ELSE IF _validate_source(source) # ""
             THEN Raised(_validate_source(source))
             ELSE result
        ELSE IF qsource # "Select" THEN Raised("ValueError")
             ELSE result

(***************************************************************************)
(* The Query machine: a table, one query built on it, and its executions.  *)
(***************************************************************************)
Rows == [{"A", "B"} -> Values]

Tables == UNION {[1..n -> Rows] : n \in 0..MaxRows}

ColumnsChoices ==
    { Str("A"), Str("X"), Atom("5"),
      Tup(<<Str("A"), Str("B")>>),
      List(<<Str("B")>>), SetOf(<<Str("B")>>),
      Dict(<<Item(Str("A"), Str("B"))>>),
      Dict(<<Item(Str("A"), Tup(<<Str("A"), Str("B")>>))>>),
      Dict(<<Item(Str("A"), SetOf(<<Str("B")>>))>>),
      Dict(<<Item(Str("X"), Str("B"))>>),
      Dict(<<Item(Str("A"), Dict(<<Item(Str("B"), Str("A"))>>))>>),
      Dict(<<Item(Str("A"), Dict(<<Item(Str("X"), Str("A"))>>))>>),
      Dict(<<Item(Str("X"), Dict(<<Item(Str("B"), Str("A"))>>))>>) }

WhereChoices ==
    { <<>>, <<[key |-> "B", val |-> Num(1)]>>,
      <<[key |-> "X", val |-> Num(1)]>> }

NotRun ==
    [ran |-> FALSE, given |-> "None", out |-> Unset, prev |-> Unset]

InitQuery ==
    /\ table \in Tables
    /\ qstate = "none"
    /\ qbound = FALSE
    /\ qcolumns = NoColumns
    /\ qwhere = <<>>
    /\ qsource = "None"
    /\ qargs = NoColumns
    /\ qkwds = <<>>
    /\ qsteps = <<>>
    /\ outcome = [o \in BOOLEAN |-> NotRun]
    /\ ResultIdle
    /\ MappingIdle
    /\ ChainIdle
    /\ SelectIdle
    /\ SharedIdle
    /\ LaterIdle

\* Query(columns, **where) and Query(select, columns, **where)
QueryConstruct ==
    /\ qstate = "none"
    /\ \E bound \in BOOLEAN, columns \in ColumnsChoices, where \in WhereChoices :
        LET made == Query__init__(bound, columns, where)
        IN  /\ qstate' = IF made.err = "" THEN "built" ELSE made.err
            /\ qbound' = bound
            /\ qcolumns' = columns
            /\ qwhere' = where
            /\ qsource' = made.source
            /\ qargs' = made.args
            /\ qkwds' = made.kwds
    /\ UNCHANGED <<table, qsteps, outcome, resVars, mapVars,
                   chainVars, selVars,
                   sharedVars,
                   laterVars>>

\* query.sum(), query.count(): the query followed from here on is the new
\* one, which has not been executed.
QueryAddStep ==
    /\ qstate = "built"
    /\ Len(qsteps) < MaxSteps
    /\ \E name \in StepNames :
         qsteps' = Append(qsteps, _query_step(name, <<>>, <<>>))
    /\ outcome' = [o \in BOOLEAN |-> NotRun]
    /\ UNCHANGED <<table, qstate, qbound, qcolumns, qwhere, qsource, qargs,
                   qkwds, resVars, mapVars,
                   chainVars, selVars,
                   sharedVars,
                   laterVars>>

\* query.execute(optimize=...).fetch() and
\* query.execute(select, optimize=...).fetch()
QueryExecute ==
    /\ qstate = "built"
    /\ \E given \in Sources, optimize \in BOOLEAN :
        outcome' = [outcome EXCEPT ![optimize] =
                       [ran |-> TRUE, given |-> given,
                        out |-> execute(given, optimize),
                        prev |-> IF @.ran /\ @.given = given THEN @.out
                                                             ELSE Unset]]
    /\ UNCHANGED <<table, qstate, qbound, qcolumns, qwhere, qsource, qargs,
                   qkwds, qsteps, resVars, mapVars,
                   chainVars, selVars,
                   sharedVars,
                   laterVars>>

NextQuery ==
    \/ QueryConstruct
    \/ QueryAddStep
    \/ QueryExecute

SpecQuery == InitQuery /\ [][NextQuery]_vars

(***************************************************************************)
(* Query objects on the heap: chaining and executing. A Query object is    *)
(* [source, args, kwds, steps] with args, kwds and steps references to a   *)
(* tuple, a dict and a list object; the references say which objects two   *)
(* Queries share.                                                          *)
(***************************************************************************)
\* What a Query object holds, with the references followed.
View(i) ==
    [source |-> objs[i].source,
     args |-> heapTuples[objs[i].args],
     kwds |-> heapDicts[objs[i].kwds],
     steps |-> heapLists[objs[i].steps]]

\* BaseQuery.__copy__: the same source and args object, a new dict with
\* the keywords and a new list with the steps.
copyShared(self) ==
    [obj |-> objs[self], dicts |-> heapDicts, lists |-> heapLists]

__copy__(self) ==
    [obj |-> [source |-> objs[self].source,
              args |-> objs[self].args,
              kwds |-> Len(heapDicts) + 1,
              steps |-> Len(heapLists) + 1],
     dicts |-> Append(heapDicts, heapDicts[objs[self].kwds]),
     lists |-> Append(heapLists, heapLists[objs[self].steps])]

\* BaseQuery._add_step: append the step to the copy's list.
_add_step(self, name, args) ==
    LET new_query == __copy__(self)
    IN  [obj |-> new_query.obj,
         dicts |-> new_query.dicts,
         lists |-> [new_query.lists EXCEPT ![new_query.obj.steps] =
                       Append(@, _query_step(name, args, <<>>))]]

\* The chain methods with the arguments they pass to _add_step. reduce
\* takes an initializer_factory that is None, a callable or neither.
ChainCalls ==
    { [name |-> n, args |-> <<"function">>] :
          n \in {"map", "starmap", "filter", "apply"} }
    \cup { [name |-> "reduce", args |-> <<"function", init>>] :
               init \in {"None", "callable", "notcallable"} }
    \cup { [name |-> n, args |-> <<>>] :
               n \in {"sum", "count", "avg", "min", "max", "distinct",
                      "flatten", "unwrap"} }

\* BaseQuery.reduce raises TypeError for an initializer_factory that is
\* neither None nor callable; the other methods raise nothing.
ChainRaises(call) == call.name = "reduce" /\ call.args[2] = "notcallable"

NotExecuted ==
    [self |-> 0, given |-> FALSE, optimize |-> FALSE, rewritten |-> FALSE,
     before |-> [source |-> "None", args |-> <<>>, kwds |-> <<>>,
                 steps |-> <<>>]]

\* The selections and filters the first Query is built from.
ChainColumns == { Dict(<<Item(Str("A"), Str("B"))>>) }

ChainWhere == { <<[key |-> "B", val |-> Num(1)]>> }

\* Query(columns, **where) or Query(select, columns, **where): the first
\* Query object.
InitChain ==
    /\ \E bound \in BOOLEAN, columns \in ChainColumns, where \in ChainWhere :
         LET made == Query__init__(bound, columns, where)
         IN  /\ objs = <<[source |-> made.source, args |-> 1, kwds |-> 1,
                          steps |-> 1]>>
             /\ heapTuples = << <<made.args>> >>
             /\ heapDicts = <<made.kwds>>
             /\ heapLists = << <<>> >>
             /\ born = <<[parent |-> 0,
                          step |-> _query_step("", <<>>, <<>>),
                          view |-> [source |-> made.source,
                                    args |-> <<made.args>>,
                                    kwds |-> made.kwds,
                                    steps |-> <<>>]]>>
    /\ lastExec = NotExecuted
    /\ ResultIdle
    /\ MappingIdle
    /\ QueryIdle
    /\ SelectIdle
    /\ SharedIdle
    /\ LaterIdle

\* q.map(f), q.sum(), ...: any chain method on any Query made so far.
ChainCall ==
    /\ Len(objs) < MaxQueries
    /\ \E self \in 1..Len(objs), call \in ChainCalls :
        IF ChainRaises(call)
        THEN UNCHANGED <<objs, heapDicts, heapLists, born, selVars,
                   sharedVars,
                   laterVars>>
        ELSE LET r == _add_step(self, call.name, call.args)
             IN  /\ objs' = Append(objs, r.obj)
                 /\ heapDicts' = r.dicts
                 /\ heapLists' = r.lists
                 /\ born' = Append(born,
                        [parent |-> self,
                         step |-> _query_step(call.name, call.args, <<>>),
                         view |-> [source |-> r.obj.source,
                                   args |-> heapTuples[r.obj.args],
                                   kwds |-> r.dicts[r.obj.kwds],
                                   steps |-> r.lists[r.obj.steps]]])
    /\ UNCHANGED <<heapTuples, lastExec, resVars, mapVars, qryVars, selVars,
                   sharedVars,
                   laterVars>>

\* args_1 = (sqlite_function,) + args_1 in BaseQuery._optimize: the sum of
\* two tuples is a new tuple object, and args_1 names it from then on.
prependInPlace(tuples, ref, x) ==
    [heap |-> [tuples EXCEPT ![ref] = <<x>> \o @], ref |-> ref]

prepend(tuples, ref, x) ==
    [heap |-> Append(tuples, <<x>> \o tuples[ref]), ref |-> Len(tuples) + 1]

\* The tuple objects after execute() on the Query self: the plan's second
\* step refers to self.args and self.kwds themselves; the optimizer, when
\* it pushes an aggregate into the store, gives its own step a tuple made
\* by prepend. The loop of execute() builds fresh args tuples and keyword
\* dicts for each call. What the call allocated is garbage when it returns.
executeHeap(self, optimize) ==
    LET execution_plan == _get_execution_plan(heapTuples[objs[self].args][1],
                                              heapDicts[objs[self].kwds],
                                              heapLists[objs[self].steps])
        optimized == _optimize(execution_plan)
        rewritten == optimize /\ optimized # <<>>
        aggregate == rewritten
                     /\ optimized[1].args[2] = Name("_select_aggregate")
        after == IF aggregate
                 THEN prepend(heapTuples, objs[self].args,
                              optimized[2].args[1]).heap
                 ELSE heapTuples
    IN  [rewritten |-> rewritten,
         tuples |-> SubSeq(after, 1, Len(heapTuples))]

\* q.execute(optimize=...) and q.fetch() on a Query with a store,
\* q.execute(select, optimize=...) on one without, for any Query made so
\* far.
ChainExecute ==
    /\ \E self \in 1..Len(objs), optimize \in BOOLEAN :
        LET r == executeHeap(self, optimize)
        IN  /\ heapTuples' = r.tuples
            /\ lastExec' = [self |-> self,
                            given |-> objs[self].source # "Select",
                            optimize |-> optimize,
                            rewritten |-> r.rewritten,
                            before |-> View(self)]
    /\ UNCHANGED <<objs, heapDicts, heapLists, born, resVars, mapVars,
                   qryVars, selVars,
                   sharedVars,
                   laterVars>>

NextChain ==
    \/ ChainCall
    \/ ChainExecute

SpecChain == InitChain /\ [][NextChain]_vars

(***************************************************************************)
(* Selecting from a table: select(columns, **where).fetch() on tables of   *)
(* up to MaxSelectRows rows.                                               *)
(***************************************************************************)
SelectTables == UNION {[1..n -> Rows] : n \in 0..MaxSelectRows}

\* Grouped selections: a mapping of a key to a list or a set of values.
SelectColumns ==
    { Dict(<<Item(Str("A"), Str("B"))>>),
      Dict(<<Item(Str("A"), List(<<Tup(<<Str("A"), Str("B")>>)>>))>>),
      Dict(<<Item(Tup(<<Str("B"), Str("A")>>), List(<<Str("B")>>))>>),
      Dict(<<Item(Str("B"), SetOf(<<Str("A")>>))>>) }

SelectWhere == { <<>>, <<[key |-> "B", val |-> Num(1)]>> }

NotSelected ==
    [called |-> FALSE, columns |-> NoColumns, kwds |-> <<>>, out |-> Unset]

InitSelect ==
    /\ table \in SelectTables
    /\ qstate = "idle"
    /\ qbound = FALSE
    /\ qcolumns = NoColumns
    /\ qwhere = <<>>
    /\ qsource = "None"
    /\ qargs = NoColumns
    /\ qkwds = <<>>
    /\ qsteps = <<>>
    /\ outcome = <<>>
    /\ selected = NotSelected
    /\ applied = <<>>
    /\ ResultIdle
    /\ MappingIdle
    /\ ChainIdle
    /\ SharedIdle
    /\ LaterIdle

\* select(columns, **where).fetch(): Select.__call__ makes
\* Query(self, columns, **where), whose plan is _select(*args, **kwds).
SelectFetch ==
    /\ \E columns \in SelectColumns, where \in SelectWhere :
        LET made == Query__init__(TRUE, columns, where)
        IN  selected' = [called |-> TRUE, columns |-> made.args,
                         kwds |-> made.kwds,
                         out |-> IF made.err # "" THEN Raised(made.err)
                                 ELSE _select(made.args, made.kwds)]
    /\ UNCHANGED <<applied, resVars, mapVars, qryVars, chainVars,
                   sharedVars,
                   laterVars>>

NextSelect == SelectFetch

SpecSelect == InitSelect /\ [][NextSelect]_vars

(***************************************************************************)
(* The aggregate functions on a collection: _apply_to_data(function, data) *)
(* with a list for data, which is what the steps sum(), count(), avg(),    *)
(* min() and max() do to a result that is no mapping.                      *)
(***************************************************************************)
\* Null, the falsy number and the falsy text, further numbers, a further
\* text and blobs.
AggregateValues ==
    { None, Num(0), Num(1), Num(2), TextAt(0), TextAt(1), Blob(0), Blob(1) }

AggregateData ==
    UNION { [1..n -> AggregateValues] : n \in 0..MaxData }

AggregateFunctions ==
    { "_sqlite_sum", "_sqlite_count", "_sqlite_avg", "_sqlite_min",
      "_sqlite_max" }

InitAggregate ==
    /\ selected = <<>>
    /\ \E data \in AggregateData :
        applied = [called |-> FALSE, function |-> "", data |-> data,
                   out |-> Unset]
    /\ ResultIdle
    /\ MappingIdle
    /\ QueryIdle
    /\ ChainIdle
    /\ SharedIdle
    /\ LaterIdle

\* function(data), through _apply_to_data.
AggregateApply ==
    /\ \E function \in AggregateFunctions :
        applied' = [called |-> TRUE, function |-> function,
                    data |-> applied.data,
                    out |-> _apply_to_data(function,
                                           Evaluated("list", applied.data))]
    /\ UNCHANGED <<selected, resVars, mapVars, qryVars, chainVars,
                   sharedVars,
                   laterVars>>

NextAggregate == AggregateApply

SpecAggregate == InitAggregate /\ [][NextAggregate]_vars

(***************************************************************************)
(* Normalizing a selection: _normalize_columns(columns), and again on what *)
(* it returned.                                                            *)
(***************************************************************************)
\* What stands where a field name is expected: a name, or something that
\* is no str.
NormalizeFields == { Str("A"), Str("B"), Atom("5") }

NormalizeSeqs == UNION { [1..n -> NormalizeFields] : n \in 1..MaxFields }

\* hash(x) works: a set holds x, a dict has x for a key.
Hashable(x) == x.t \in {"str", "int", "tuple"}

\* A set has no member twice.
Distinct1(xs) == \A i, j \in 1..Len(xs) : xs[i] = xs[j] => i = j

NormalizeGroups ==
    NormalizeFields
        \cup { Tup(xs) : xs \in NormalizeSeqs }
        \cup { List(xs) : xs \in NormalizeSeqs }
        \cup { SetOf(xs) : xs \in { ys \in NormalizeSeqs : Distinct1(ys) } }

NormalizeValues ==
    NormalizeGroups
        \cup { Tup(<<g>>) : g \in NormalizeGroups }
        \cup { List(<<g>>) : g \in NormalizeGroups }
        \cup { SetOf(<<g>>) : g \in { h \in NormalizeGroups : Hashable(h) } }

NormalizeKeys == { Str("A"), Tup(<<Str("A"), Str("B")>>), Atom("5") }

NormalizeChoices ==
    NormalizeValues
        \cup { Dict(<<Item(k, x)>>) :
                  k \in NormalizeKeys, x \in NormalizeValues }
        \cup { Dict(<<>>),
               Dict(<<Item(Str("A"), Str("B")), Item(Str("B"), Str("A"))>>),
               Dict(<<Item(Str("A"), Dict(<<Item(Str("A"), Str("B"))>>))>>) }

NotNormalized == [err |-> "", columns |-> NoColumns]

InitNormalize ==
    /\ \E columns \in NormalizeChoices :
        normalized = [called |-> FALSE, columns |-> columns,
                      once |-> NotNormalized, twice |-> NotNormalized]
    /\ IdleExceptNorm

\* _normalize_columns(columns), then _normalize_columns of what it returned
\* when it returned.
Normalize ==
    /\ ~normalized.called
    /\ LET once == _normalize_columns(normalized.columns)
       IN  normalized' = [normalized EXCEPT
               !.called = TRUE,
               !.once = once,
               !.twice = IF once.err = "" THEN _normalize_columns(once.columns)
                         ELSE once]
    /\ UNCHANGED exceptNorm

NextNormalize == Normalize

SpecNormalize == InitNormalize /\ [][NextNormalize]_vars

(***************************************************************************)
(* The user functions of one Select: a callable given as a filter value is *)
(* registered with the SQLite connection under a generated name, and the   *)
(* name is kept in _user_function_dict under the callable's hash, or under *)
(* its id when it has no hash.                                             *)
(***************************************************************************)
\* A callable: its id, whether hash() works on it, its hash, and the
\* values of column B it answers true for. Two of them have one hash.
Predicate(id, hashable, hash, keeps) ==
    [id |-> id, hashable |-> hashable, hash |-> hash, keeps |-> keeps]

Predicates ==
    { Predicate(1, TRUE, 7, {1}),
      Predicate(2, TRUE, 7, {2}),
      Predicate(3, TRUE, 8, {1, 3}),
      Predicate(4, FALSE, 0, {2, 3}) }

\* Column B of the rows of the table.
RegistryTable == <<1, 2, 3>>

\* try: hash(keyref) except TypeError: id(keyref)
FuncKey(keyref) == IF keyref.hashable THEN keyref.hash ELSE keyref.id

\* d[key] = name
Store(d, key, name) ==
    [k \in DOMAIN d \cup {key} |-> IF k = key THEN name ELSE d[k]]

\* _create_user_function(func, func_key) on the dict d, the created
\* functions c and the name generator at gen: [err, dict, created, gen].
\* func_key = 0 stands for a key that is not given or is falsy.
_create_user_function(d, c, gen, func, func_key) ==
    LET key == IF func_key = 0 THEN FuncKey(func) ELSE func_key
    IN  IF key \in DOMAIN d
        THEN [err |-> "ValueError", dict |-> d, created |-> c, gen |-> gen]
        ELSE [err |-> "", dict |-> Store(d, key, gen),
              created |-> Store(c, gen, func), gen |-> gen + 1]

\* _get_user_function(func): [err, name, dict, created, gen].
_get_user_function(d, c, gen, func) ==
    LET func_key == FuncKey(func)
        made == _create_user_function(d, c, gen, func, func_key)
    IN  IF func_key \in DOMAIN d
        THEN [err |-> "", name |-> d[func_key], dict |-> d, created |-> c,
              gen |-> gen]
        ELSE IF made.err # ""
        THEN [err |-> made.err, name |-> -1, dict |-> d, created |-> c,
              gen |-> gen]
        ELSE IF func_key \notin DOMAIN made.dict
        THEN [err |-> "KeyError", name |-> -1, dict |-> made.dict,
              created |-> made.created, gen |-> made.gen]
        ELSE [err |-> "", name |-> made.dict[func_key], dict |-> made.dict,
              created |-> made.created, gen |-> made.gen]

InitRegistry ==
    /\ _user_function_dict = <<>>
    /\ created = <<>>
    /\ name_gen = 0
    /\ used = {}
    /\ lastUse = [op |-> "none", func |-> Predicate(0, TRUE, 0, {}),
                  first |-> FALSE, before |-> <<>>, err |-> "", name |-> -1,
                  rows |-> <<>>]
    /\ IdleExceptReg

\* select('A', B=func).fetch(): _build_where_clause asks
\* _get_user_function(func) for the name and the statement keeps the rows
\* the function created under that name answers true for.
RegistrySelect ==
    \E func \in Predicates :
        LET got == _get_user_function(_user_function_dict, created,
                                      name_gen, func)
        IN  /\ _user_function_dict' = got.dict
            /\ created' = got.created
            /\ name_gen' = got.gen
            /\ used' = used \cup {func}
            /\ lastUse' =
                   [op |-> "select", func |-> func,
                    first |-> func \notin used,
                    before |-> _user_function_dict, err |-> got.err,
                    name |-> got.name,
                    rows |-> IF got.err # "" THEN <<>>
                             ELSE SelectSeq(RegistryTable, LAMBDA b :
                                      b \in got.created[got.name].keeps)]
            /\ UNCHANGED exceptReg

\* select._create_user_function(func)
RegistryCreate ==
    \E func \in Predicates :
        LET made == _create_user_function(_user_function_dict, created,
                                          name_gen, func, 0)
        IN  /\ _user_function_dict' = made.dict
            /\ created' = made.created
            /\ name_gen' = made.gen
            /\ used' = used \cup {func}
            /\ lastUse' =
                   [op |-> "create", func |-> func,
                    first |-> func \notin used,
                    before |-> _user_function_dict, err |-> made.err,
                    name |-> IF made.err # "" THEN -1 ELSE name_gen,
                    rows |-> <<>>]
            /\ UNCHANGED exceptReg

NextRegistry ==
    \/ RegistrySelect
    \/ RegistryCreate

SpecRegistry == InitRegistry /\ [][NextRegistry]_vars

(***************************************************************************)
(* Field names in SQL. A name is the sequence of its characters, and so is *)
(* a piece of SQL text.                                                    *)
(***************************************************************************)
Quote == "\""

\* ch.isalnum()
isalnum(ch) == ch \in {"a", "b", "c", "q", "t", "x"}

\* name.replace('"', '""')
RECURSIVE replace(_)
replace(name) ==
    IF name = <<>> THEN <<>>
    ELSE (IF Head(name) = Quote THEN <<Quote, Quote>> ELSE <<Head(name)>>)
             \o replace(Tail(name))

\* Select._escape_field_name
_escape_field_name(name) == <<Quote>> \o replace(name) \o <<Quote>>

\* sep.join(parts)
RECURSIVE join(_, _)
join(sep, parts) ==
    IF parts = <<>> THEN <<>>
    ELSE IF Len(parts) = 1 THEN parts[1]
    ELSE parts[1] \o sep \o join(sep, Tail(parts))

\* What SQLite reads between the quotes of a quoted identifier: "" is one
\* quote; a single quote inside ends the identifier too early ("bad").
RECURSIVE unquote(_)
unquote(text) ==
    IF text = <<>> THEN <<>>
    ELSE IF Head(text) # Quote THEN <<Head(text)>> \o unquote(Tail(text))
    ELSE IF Len(text) >= 2 /\ text[2] = Quote
    THEN <<Quote>> \o unquote(Tail(Tail(text)))
    ELSE <<"bad">>

\* The column SQLite takes a piece of SQL text for: a quoted identifier is
\* the name between its quotes, a bare one must be made of letters, digits
\* and underscores. [err, name]
SqlIdentifier(text) ==
    IF Len(text) >= 2 /\ text[1] = Quote /\ text[Len(text)] = Quote
    THEN LET inner == unquote(SubSeq(text, 2, Len(text) - 1))
         IN  IF "bad" \in Range(inner)
             THEN [err |-> "OperationalError", name |-> <<>>]
             ELSE [err |-> "", name |-> inner]
    ELSE IF text # <<>> /\ \A i \in 1..Len(text) :
                               isalnum(text[i]) \/ text[i] = "_"
    THEN [err |-> "", name |-> text]
    ELSE [err |-> "OperationalError", name |-> <<>>]

(***************************************************************************)
(* Select.create_index on one table.                                       *)
(***************************************************************************)
\* self.fieldnames of the table
IndexFieldnames ==
    { <<"a">>, <<"b">>, <<"a", "b">>, <<"a", " ", "b">>, <<"a", "_", "b">>,
      <<"q", Quote, "t">> }

\* The column lists create_index is called with; <<"x">> is no column.
IndexColumns ==
    { <<>>,
      << <<"a", "b">> >>,
      << <<"a", " ", "b">> >>,
      << <<"a", "_", "b">> >>,
      << <<"a">>, <<"b">> >>,
      << <<"q", Quote, "t">> >>,
      << <<"x">> >>,
      << <<"a">>, <<"x">> >> }

\* ''.join(x for x in col if x.isalnum())
whitelist(col) == SelectSeq(col, isalnum)

\* idx_{table}_{names}
idx_name(columns) ==
    <<"idx_tbl_">>
        \o join(<<"_">>, [i \in 1..Len(columns) |-> whitelist(columns[i])])

\* CREATE INDEX that fails when the name is taken.
CreateIndexStrict(idx, name, columns) ==
    LET read == [i \in 1..Len(columns) |-> SqlIdentifier(columns[i])]
    IN  IF columns = <<>> \/ \E i \in 1..Len(read) : read[i].err # ""
        THEN [err |-> "OperationalError", indexes |-> idx]
        ELSE IF name \in DOMAIN idx
        THEN [err |-> "OperationalError", indexes |-> idx]
        ELSE [err |-> "",
              indexes |-> [n \in DOMAIN idx \cup {name} |->
                              IF n = name
                              THEN [i \in 1..Len(read) |-> read[i].name]
                              ELSE idx[n]]]

\* CREATE INDEX IF NOT EXISTS name ON table (columns), as SQLite runs it:
\* an empty column list is a syntax error, an index of that name makes the
\* statement do nothing. [err, indexes]
CreateIndexIfNotExists(idx, name, columns) ==
    LET read == [i \in 1..Len(columns) |-> SqlIdentifier(columns[i])]
    IN  IF columns = <<>> \/ \E i \in 1..Len(read) : read[i].err # ""
        THEN [err |-> "OperationalError", indexes |-> idx]
        ELSE IF name \in DOMAIN idx
        THEN [err |-> "", indexes |-> idx]
        ELSE [err |-> "",
              indexes |-> [n \in DOMAIN idx \cup {name} |->
                              IF n = name
                              THEN [i \in 1..Len(read) |-> read[i].name]
                              ELSE idx[n]]]

\* Select.create_index(*columns): [err, indexes]
create_index(idx, columns) ==
    IF \E i \in 1..Len(columns) : columns[i] \notin IndexFieldnames
    THEN [err |-> "LookupError", indexes |-> idx]
    ELSE CreateIndexIfNotExists(idx, idx_name(columns),
             [i \in 1..Len(columns) |-> _escape_field_name(columns[i])])

InitIndex ==
    /\ indexes = <<>>
    /\ returned = {}
    /\ lastIndex = [called |-> FALSE, columns |-> <<>>, err |-> "",
                    before |-> <<>>, again |-> FALSE]
    /\ nIndexCalls = 0
    /\ IdleExceptIdx

IndexCreate ==
    /\ nIndexCalls < MaxIndexCalls
    /\ \E columns \in IndexColumns :
        LET made == create_index(indexes, columns)
        IN  /\ indexes' = made.indexes
            /\ returned' = IF made.err = "" THEN returned \cup {columns}
                                            ELSE returned
            /\ lastIndex' = [called |-> TRUE, columns |-> columns,
                             err |-> made.err, before |-> indexes,
                             again |-> columns \in returned]
    /\ nIndexCalls' = nIndexCalls + 1
    /\ UNCHANGED exceptIdx

NextIndex == IndexCreate

SpecIndex == InitIndex /\ [][NextIndex]_vars

(***************************************************************************)
(* The SQL text Select builds: for each statement, the places where it     *)
(* names a column, with the clause, the field name meant and the text      *)
(* written.                                                                *)
(***************************************************************************)
Reference(clause, name, text) ==
    [clause |-> clause, name |-> name, text |-> text]

\* The escaped names of a tuple of fields, as references of a clause.
Escaped(clause, names) ==
    [i \in 1..Len(names) |->
        Reference(clause, names[i], _escape_field_name(names[i]))]

\* Select._build_where_clause: '{key}=?', '{key} IN (...)' or
\* '{func_name}({key})' for each keyword; the key is written as it is.
_build_where_clause(where) ==
    [i \in 1..Len(where) |-> Reference("WHERE", where[i], where[i])]

\* cursor.execute(stmnt): OperationalError when a reference is no
\* identifier or names no column of the table.
Execute(references) ==
    IF \E i \in 1..Len(references) :
           \/ SqlIdentifier(references[i].text).err # ""
           \/ SqlIdentifier(references[i].text).name \notin IndexFieldnames
    THEN "OperationalError"
    ELSE ""

\* The statement of _select and _select_distinct (trailing = "ORDER BY")
\* and of _select_aggregate (trailing = "GROUP BY") for key and value
\* fields that exist, through _parse_key_value and _execute_query.
Statement(kind, trailing, key, value, where) ==
    LET references == Escaped("SELECT", key \o value)
                          \o _build_where_clause(where)
                          \o Escaped(trailing, key)
    IN  [called |-> TRUE, kind |-> kind, references |-> references,
         err |-> Execute(references)]

\* The key fields, the value fields and the filter keywords of a
\* selection: fields of the table.
SqlKeys == { <<>>, << <<"a">> >>, << <<"a", "_", "b">> >>,
             << <<"a", " ", "b">> >> }

SqlWhere == { <<>>, << <<"a", "b">> >>, << <<"a", " ", "b">> >>,
              << <<"q", Quote, "t">> >> }

SqlValues == { <<n>> : n \in IndexFieldnames }

InitSql ==
    /\ statement = [called |-> FALSE, kind |-> "", references |-> <<>>,
                    err |-> ""]
    /\ IdleExceptSql

\* select({key: value}, **where).fetch(), unoptimized
SqlSelect ==
    /\ \E key \in SqlKeys, value \in SqlValues, where \in SqlWhere :
        statement' = Statement("_select", "ORDER BY", key, value, where)
    /\ UNCHANGED exceptSql

\* select({key: value}, **where).distinct().fetch()
SqlSelectDistinct ==
    /\ \E key \in SqlKeys, value \in SqlValues, where \in SqlWhere :
        statement' = Statement("_select_distinct", "ORDER BY", key, value,
                               where)
    /\ UNCHANGED exceptSql

\* select({key: value}, **where).sum().fetch()
SqlSelectAggregate ==
    /\ \E key \in SqlKeys, value \in SqlValues, where \in SqlWhere :
        statement' = Statement("_select_aggregate", "GROUP BY", key, value,
                               where)
    /\ UNCHANGED exceptSql

\* select.create_index(*columns) for columns that exist
SqlCreateIndex ==
    /\ \E columns \in SqlValues :
        LET references == Escaped("CREATE INDEX", columns)
        IN  statement' = [called |-> TRUE, kind |-> "create_index",
                          references |-> references,
                          err |-> Execute(references)]
    /\ UNCHANGED exceptSql

NextSql ==
    \/ SqlSelect
    \/ SqlSelectDistinct
    \/ SqlSelectAggregate
    \/ SqlCreateIndex

SpecSql == InitSql /\ [][NextSql]_vars

(***************************************************************************)
(* BaseQuery._optimize on the plans _get_execution_plan makes.             *)
(***************************************************************************)
\* The steps a Query can have, with the names of the functions given.
PlanSteps ==
    { _query_step(n, <<"function">>, <<>>) :
          n \in {"map", "starmap", "filter", "apply"} }
    \cup { _query_step("reduce", <<"function", "None">>, <<>>) }
    \cup { _query_step(n, <<>>, <<>>) :
               n \in {"sum", "count", "avg", "min", "max", "distinct",
                      "flatten", "unwrap"} }

PlanStepSeqs == UNION { [1..n -> PlanSteps] : n \in 0..MaxPlanSteps }

\* The plans of a Query on a Select, with and without a filter, and of a
\* Query on another object.
Plans ==
    { _get_execution_plan(List(<<Str("A")>>), kwds, steps) :
          kwds \in { <<>>, <<[key |-> "B", val |-> Num(1)]>> },
          steps \in PlanStepSeqs }
    \cup { _get_execution_plan_iterable(steps) : steps \in PlanStepSeqs }

InitOptimize ==
    /\ \E execution_plan \in Plans :
        optimizing = [called |-> FALSE, plan |-> execution_plan, out |-> <<>>]
    /\ IdleExceptOpt

\* self._optimize(execution_plan)
Optimize ==
    /\ ~optimizing.called
    /\ optimizing' = [optimizing EXCEPT !.called = TRUE,
                                      !.out = _optimize(optimizing.plan)]
    /\ UNCHANGED exceptOpt

NextOptimize == Optimize

SpecOptimize == InitOptimize /\ [][NextOptimize]_vars

(***************************************************************************)
(* The Result of a grouped selection, select({key: value}).execute():      *)
(* _format_results groups the rows of the cursor with itertools.groupby    *)
(* and wraps every group in a nested Result. All groups read the one       *)
(* cursor: when groupby goes on to the next group it skips what is left of *)
(* the group it was at, and the iterator of that group has ended.          *)
(***************************************************************************)
\* The rows of the groups, as the cursor gives them (ORDER BY key).
RECURSIVE RowsOf(_)
RowsOf(groups) ==
    IF groups = <<>> THEN <<>>
    ELSE [j \in 1..Len(Head(groups).xs) |->
             [k |-> Head(groups).k, x |-> Head(groups).xs[j]]]
         \o RowsOf(Tail(groups))

\* The rows left once the rows at the front with the key are dropped.
RECURSIVE SkipGroup(_, _)
SkipGroup(cur, key) ==
    IF cur # <<>> /\ Head(cur).k = key THEN SkipGroup(Tail(cur), key)
    ELSE cur

\* The values of the rows at the front that have the key, n at most.
RECURSIVE TakeGroup(_, _, _)
TakeGroup(cur, key, n) ==
    IF n = 0 \/ cur = <<>> \/ Head(cur).k # key THEN <<>>
    ELSE <<Head(cur).x>> \o TakeGroup(Tail(cur), key, n - 1)

\* next(formatted): groupby skips the rest of the group it is at and
\* starts the next one; _format_result_group wraps it in a Result, whose
\* constructor reads up to _preview_length + 1 values of the group.
\* made is FALSE when the cursor has no further group.
NextGroup(cur, key) ==
    LET skipped == SkipGroup(cur, key)
        k == Head(skipped).k
        prefetch == TakeGroup(skipped, k, _preview_length + 1)
    IN  IF skipped = <<>>
        THEN [made |-> FALSE, pair |-> [k |-> 0, cache |-> <<>>],
              cursor |-> skipped, currkey |-> key]
        ELSE [made |-> TRUE, pair |-> [k |-> k, cache |-> prefetch],
              cursor |-> SubSeq(skipped, Len(prefetch) + 1, Len(skipped)),
              currkey |-> k]

\* Result._refresh_cache of the outer Result.
RECURSIVE _refresh_cache_grouped(_, _, _)
_refresh_cache_grouped(c, cur, key) ==
    LET r == NextGroup(cur, key)
    IN  IF _get_cache_length(c) >= _preview_length + 1 \/ ~r.made
        THEN [cache |-> c, cursor |-> cur, currkey |-> key]
        ELSE _refresh_cache_grouped(Append(c, r.pair), r.cursor, r.currkey)

InitGrouped ==
    /\ \E n \in 1..MaxGroups :
         \E lens \in [1..n -> 1..MaxLen] :
           gsrc = [i \in 1..n |->
                      [k |-> i, xs |-> [j \in 1..lens[i] |-> Element(i, j)]]]
    /\ LET r == _refresh_cache_grouped(<<>>, RowsOf(gsrc), 0)
       IN  /\ gcache = r.cache
           /\ gcursor = r.cursor
           /\ currkey = r.currkey
    /\ held = <<>>
    /\ gdone = FALSE
    /\ IdleExceptGrp

\* next(result) on the outer Result: the first cached pair, else the next
\* pair of the generator, else StopIteration. The caller keeps the nested
\* Result it got.
GroupedNext ==
    /\ ~gdone
    /\ LET r == NextGroup(gcursor, currkey)
       IN  IF gcache # <<>>
           THEN /\ held' = Append(held, [k |-> Head(gcache).k,
                                         cache |-> Head(gcache).cache,
                                         yielded |-> <<>>, done |-> FALSE])
                /\ gcache' = Tail(gcache)
                /\ UNCHANGED <<gcursor, currkey, gdone>>
           ELSE IF r.made
           THEN /\ held' = Append(held, [k |-> r.pair.k,
                                         cache |-> r.pair.cache,
                                         yielded |-> <<>>, done |-> FALSE])
                /\ gcursor' = r.cursor
                /\ currkey' = r.currkey
                /\ UNCHANGED <<gcache, gdone>>
           ELSE /\ gdone' = TRUE
                /\ gcursor' = r.cursor
                /\ UNCHANGED <<gcache, currkey, held>>
    /\ UNCHANGED <<gsrc, exceptGrp>>

\* result._preview() on the outer Result: _refresh_cache, then the loop
\* that writes the ending ellipsis into the cached nested Results.
GroupedPreview ==
    /\ ~gdone
    /\ LET r == _refresh_cache_grouped(gcache, gcursor, currkey)
       IN  /\ gcache' = [i \in 1..Len(r.cache) |->
                            [r.cache[i] EXCEPT !.cache =
                                IF Len(@) > _preview_length
                                THEN [@ EXCEPT ![_preview_length + 1] =
                                         _TRUNCATED_ENDING]
                                ELSE @]]
           /\ gcursor' = r.cursor
           /\ currkey' = r.currkey
    /\ UNCHANGED <<gsrc, held, gdone, exceptGrp>>

\* next(v) on a nested Result the caller holds: its first cached value,
\* else the next row of the cursor when groupby is still at this group and
\* the row has its key, else StopIteration.
HeldNext ==
    /\ \E i \in 1..Len(held) :
        /\ ~held[i].done
        /\ IF held[i].cache # <<>>
           THEN /\ held' = [held EXCEPT
                                ![i].cache = Tail(@),
                                ![i].yielded = Append(@, Head(held[i].cache))]
                /\ UNCHANGED gcursor
           ELSE IF currkey = held[i].k /\ gcursor # <<>>
                   /\ Head(gcursor).k = held[i].k
           THEN /\ held' = [held EXCEPT
                                ![i].yielded = Append(@, Head(gcursor).x)]
                /\ gcursor' = Tail(gcursor)
           ELSE /\ held' = [held EXCEPT ![i].done = TRUE]
                /\ UNCHANGED gcursor
    /\ UNCHANGED <<gsrc, currkey, gcache, gdone, exceptGrp>>

NextGrouped ==
    \/ GroupedNext
    \/ GroupedPreview
    \/ HeldNext

SpecGrouped == InitGrouped /\ [][NextGrouped]_vars

(***************************************************************************)
(* Query.from_object(obj).execute().fetch()                                *)
(***************************************************************************)
\* The members of the objects.
ObjectMembers == { Num(0), Num(1), Text }

ObjectSeqs == UNION { [1..n -> ObjectMembers] : n \in 0..MaxObjectLen }

\* The pairs of a dict with keys 1..n.
ObjectItems ==
    UNION { { [i \in 1..n |-> Pair(Num(i), xs[i])] :
                xs \in [1..n -> ObjectMembers] } : n \in 0..MaxObjectLen }

\* Lists, tuples, sets and dicts, the empty ones among them, and objects
\* that are no containers.
Objects ==
    { Evaluated("list", xs) : xs \in ObjectSeqs }
        \cup { Evaluated("tuple", xs) : xs \in ObjectSeqs }
        \cup { Evaluated("set", xs) :
                   xs \in { ys \in ObjectSeqs : Distinct1(ys) } }
        \cup { Evaluated("dict", items) : items \in ObjectItems }
        \cup { None, Num(0), Num(1), Text }

\* bool(x) of a container, of None and of a number
bool(x) ==
    IF x.t \in {"list", "tuple", "set", "dict"} THEN x.xs # <<>>
    ELSE IF x.t = "num" THEN x.v # 0
    ELSE x.t # "None"

\* BaseQuery.from_object(obj) for an obj that is no Query: the new query.
from_object(obj) ==
    [source |-> IF nonstringiter(obj) THEN obj
                ELSE Evaluated("list", <<obj>>),
     args |-> <<>>, kwds |-> <<>>, steps |-> <<>>]

\* self.execute(optimize=optimize) of a Query whose source is no Select.
execute_object(self, optimize) ==
    LET execution_plan == _get_execution_plan_iterable(self.steps)
        optimized == _optimize(execution_plan)
    IN  IF ~bool(self.source) THEN Raised("ValueError")
        ELSE RunPlan(IF optimize /\ optimized # <<>> THEN optimized
                                                     ELSE execution_plan,
                     self.source)

\* Result.fetch: evaltype(self), or the error execute raised.
fetch(result) ==
    IF IsRaised(result) THEN result ELSE Evaluated(result.t, result.xs)

InitFromObject ==
    /\ \E obj \in Objects :
        fromObject = [called |-> FALSE, obj |-> obj, optimize |-> FALSE,
                      out |-> Unset]
    /\ IdleExceptObj

\* Query.from_object(obj).execute(optimize=optimize).fetch()
FromObjectExecute ==
    /\ \E optimize \in BOOLEAN :
        fromObject' = [called |-> TRUE, obj |-> fromObject.obj,
                       optimize |-> optimize,
                       out |-> fetch(execute_object(
                                   from_object(fromObject.obj), optimize))]
    /\ UNCHANGED exceptObj

NextFromObject == FromObjectExecute

SpecFromObject == InitFromObject /\ [][NextFromObject]_vars

(***************************************************************************)
(* A map, filter or distinct step over an upstream Result that was given a *)
(* closefunc: the step wraps map(function, upstream), filter(function,     *)
(* upstream) or _unique_everseen(upstream) in a new Result.                *)
(***************************************************************************)
PipeSteps == {"_map_data", "_filter_data", "_sqlite_distinct"}

\* The elements of the upstream iterable: 1..n, or with every value twice.
Halved(n) == [i \in 1..n |-> (i + 1) \div 2]

\* The function given to map() and the predicate given to filter().
PipeFunction(x) == x + 100

PipePredicate(x) == x % 2 = 0

\* Result(iter(source), list, closefunc): __init__ keeps the closefunc and
\* fills the cache.
UpstreamResult(source, given) ==
    LET r == _refresh_cache(<<>>, source, 0)
    IN  [given |-> given, cache |-> r.cache, wrapped |-> r.wrapped,
         closefunc |-> given, calls |-> 0]

\* next(upstream): Result.__next__ of the upstream Result, which calls its
\* close() when its wrapped iterator stops.
next_upstream(u) ==
    LET r == __next__(u.cache, u.wrapped, 0, u.closefunc, u.calls)
    IN  [signal |-> r.signal, item |-> r.item,
         up |-> [u EXCEPT !.cache = r.cache, !.wrapped = r.wrapped,
                          !.closefunc = r.closefunc, !.calls = r.calls]]

\* One next() of the iterator the step wraps: map(function, upstream)
\* gives the function of the next element, filter(function, upstream) the
\* next element the function holds for, _unique_everseen(upstream) the
\* next element not seen before.
RECURSIVE StepNext(_, _, _)
StepNext(step, u, seen) ==
    LET r == next_upstream(u)
    IN  IF r.signal = "stop"
        THEN [signal |-> "stop", item |-> 0, up |-> r.up, seen |-> seen]
        ELSE IF step = "_map_data"
        THEN [signal |-> "item", item |-> PipeFunction(r.item),
              up |-> r.up, seen |-> seen]
        ELSE IF step = "_filter_data"
        THEN IF PipePredicate(r.item)
             THEN [signal |-> "item", item |-> r.item, up |-> r.up,
                   seen |-> seen]
             ELSE StepNext(step, r.up, seen)
        ELSE IF r.item \in seen
             THEN StepNext(step, r.up, seen)
             ELSE [signal |-> "item", item |-> r.item, up |-> r.up,
                   seen |-> seen \cup {r.item}]

\* Result._refresh_cache of the Result the step returns: it pulls from the
\* step's iterator, and so from the upstream Result.
RECURSIVE _refresh_cache_step(_, _, _, _)
_refresh_cache_step(step, c, u, seen) ==
    IF Len(c) >= _preview_length + 1
    THEN [cache |-> c, up |-> u, seen |-> seen, ended |-> FALSE]
    ELSE LET r == StepNext(step, u, seen)
         IN  IF r.signal = "stop"
             THEN [cache |-> c, up |-> r.up, seen |-> r.seen,
                   ended |-> TRUE]
             ELSE _refresh_cache_step(step, Append(c, r.item), r.up, r.seen)

\* _map_data, _filter_data and _sqlite_distinct on a Result that is not a
\* collection of items: Result(<the step's iterator>, evaltype), with no
\* closefunc.
StepResult(step, u) ==
    LET r == _refresh_cache_step(step, <<>>, u, {})
    IN  [down |-> [made |-> TRUE, step |-> step, cache |-> r.cache,
                   seen |-> r.seen, ended |-> r.ended, closefunc |-> FALSE,
                   calls |-> 0, yielded |-> <<>>, stopped |-> FALSE,
                   closed |-> FALSE, early |-> FALSE, deleted |-> FALSE],
         up |-> r.up]

\* Result.__next__ of the Result the step returned.
next_downstream(d, u) ==
    IF d.cache # <<>>
    THEN [down |-> [d EXCEPT !.cache = Tail(d.cache),
                             !.yielded = Append(d.yielded, Head(d.cache))],
          up |-> u]
    ELSE LET r == IF d.ended
                  THEN [signal |-> "stop", item |-> 0, up |-> u,
                        seen |-> d.seen]
                  ELSE StepNext(d.step, u, d.seen)
         IN  IF r.signal = "stop"
             THEN [down |-> [d EXCEPT
                                !.ended = TRUE, !.stopped = TRUE,
                                !.closefunc = close(d.closefunc,
                                                    d.calls).closefunc,
                                !.calls = close(d.closefunc, d.calls).calls],
                   up |-> r.up]
             ELSE [down |-> [d EXCEPT !.seen = r.seen,
                                      !.yielded = Append(d.yielded, r.item)],
                   up |-> r.up]

NoStep ==
    [made |-> FALSE, step |-> "", cache |-> <<>>, seen |-> {},
     ended |-> FALSE, closefunc |-> FALSE, calls |-> 0, yielded |-> <<>>,
     stopped |-> FALSE, closed |-> FALSE, early |-> FALSE,
     deleted |-> FALSE]

InitPipeline ==
    /\ \E n \in 0..MaxLen, twice \in BOOLEAN, given \in BOOLEAN :
        upstream = UpstreamResult(IF twice THEN Halved(n) ELSE Source(n),
                                  given)
    /\ downstream = NoStep
    /\ IdleExceptPipe

\* downstream = _map_data(function, upstream), _filter_data(function,
\* upstream) or _sqlite_distinct(upstream)
PipelineStep ==
    /\ ~downstream.made
    /\ \E step \in PipeSteps :
        /\ downstream' = StepResult(step, upstream).down
        /\ upstream' = StepResult(step, upstream).up
    /\ UNCHANGED exceptPipe

\* next(downstream)
PipelineNext ==
    /\ downstream.made
    /\ ~downstream.deleted
    /\ ~downstream.stopped
    /\ downstream' = next_downstream(downstream, upstream).down
    /\ upstream' = next_downstream(downstream, upstream).up
    /\ UNCHANGED exceptPipe

\* downstream.close(): Result.close of the Result the step returned.
PipelineClose ==
    /\ downstream.made
    /\ ~downstream.deleted
    /\ ~downstream.closed
    /\ downstream' =
          [downstream EXCEPT
              !.closefunc = close(downstream.closefunc,
                                  downstream.calls).closefunc,
              !.calls = close(downstream.closefunc, downstream.calls).calls,
              !.closed = TRUE,
              !.early = ~downstream.stopped]
    /\ UNCHANGED upstream
    /\ UNCHANGED exceptPipe

\* The last reference to the Result the step returned goes away, and with
\* it the step's iterator and the upstream Result it holds: Result.__del__
\* of both calls close().
PipelineDel ==
    /\ downstream.made
    /\ ~downstream.deleted
    /\ downstream' =
          [downstream EXCEPT
              !.closefunc = close(downstream.closefunc,
                                  downstream.calls).closefunc,
              !.calls = close(downstream.closefunc, downstream.calls).calls,
              !.deleted = TRUE]
    /\ upstream' =
          [upstream EXCEPT
              !.closefunc = close(upstream.closefunc,
                                  upstream.calls).closefunc,
              !.calls = close(upstream.closefunc, upstream.calls).calls]
    /\ UNCHANGED exceptPipe

NextPipeline ==
    \/ PipelineStep
    \/ PipelineNext
    \/ PipelineClose
    \/ PipelineDel

SpecPipeline == InitPipeline /\ [][NextPipeline]_vars

(***************************************************************************)
(* Properties.                                                             *)
(***************************************************************************)
\* The chain has exactly the step name after select() and was executed to
\* the end with optimize=True and with optimize=False, both times with or
\* both times without a source argument.
RanBothWays(name) ==
    /\ qstate = "built"
    /\ qsteps = <<_query_step(name, <<>>, <<>>)>>
    /\ outcome[TRUE].ran
    /\ outcome[FALSE].ran
    /\ outcome[TRUE].given = outcome[FALSE].given

\* C1: select(spec, **where).sum() executed with optimize=True has the
\* same outcome (the same value or the same error) as executed with
\* optimize=False, for every table, selection and filter.
C1_SumOptimizedAgrees ==
    RanBothWays("sum") => outcome[TRUE].out = outcome[FALSE].out

\* C2: select(spec).count() executed with optimize=True returns the same
\* value, of the same shape, as executed with optimize=False.
C2_CountOptimizedAgrees ==
    (RanBothWays("count") /\ qkwds = <<>>)
        => outcome[TRUE].out = outcome[FALSE].out

\* The selection or the filter keywords name a field the table lacks.
UnknownField ==
    /\ qstate \notin {"none", "idle"}
    /\ _parse_columns(qcolumns).err = ""
    /\ \E name \in Range(_flatten(_parse_columns(qcolumns).key)
                         \o _flatten(_parse_columns(qcolumns).value)
                         \o keys(qwhere)) :
           name \notin Range(fieldnames)

\* C3: an unknown field in the selection or in a filter keyword ends in a
\* lookup error: at construction when a store is bound, and at
\* execute(source) when the query was built without one.
C3_UnknownFieldLookupError ==
    /\ (UnknownField /\ qbound) => qstate = "LookupError"
    /\ (UnknownField /\ ~qbound /\ qstate = "built")
           => \A o \in BOOLEAN :
                  (outcome[o].ran /\ outcome[o].given = "Select")
                      => outcome[o].out = Raised("LookupError")

\* C4: constructing a Query from a mapping selection whose value is a
\* mapping raises the validation error, with or without a bound store and
\* whatever fields the selection names.
C4_NestedMappingValueError ==
    (/\ qstate \notin {"none", "idle"}
     /\ Mapping(qcolumns)
     /\ Mapping(qcolumns.xs[1].xs[2]))
        => qstate = "ValueError"

\* C5: over any sequence of close(), next() and __del__() calls the close
\* callback is invoked at most once, and close() and __del__() never raise.
C5_CloseAtMostOnce ==
    /\ closeCalls <= 1
    /\ (lastOp \in {"close", "del"}) => lastSignal = "ok"

\* C5 witness: close() called a second time, after every element was
\* pulled, on a Result built with a callback; the callback ran once.
C5_Witness ==
    /\ closefuncGiven
    /\ nClose = 2
    /\ lastOp = "close"
    /\ lastSignal = "ok"
    /\ closeCalls = 1
    /\ Len(src) > 0
    /\ yielded = src

\* C6: when a pull on a Result built with a callback signals end-of-data,
\* the callback has been invoked exactly once.
C6_StopClosesOnce ==
    (closefuncGiven /\ lastOp = "next" /\ lastSignal = "stop")
        => closeCalls = 1

\* C6 witness: end-of-data signalled for a source longer than the prefetch,
\* no close() before it, the callback invoked once.
C6_Witness ==
    /\ closefuncGiven
    /\ lastOp = "next"
    /\ lastSignal = "stop"
    /\ nClose = 0
    /\ closeCalls = 1
    /\ Len(src) > _preview_length + 1

\* C7: for a non-mapping Result whose source raises nowhere, what next()
\* returned so far, then the cache, then what the source has left is the
\* source, under any interleaving with _refresh_cache() and _preview();
\* at end-of-data next() has returned exactly the source's elements, in
\* order.
C7_NextYieldsSourceInOrder ==
    (raiseAt = 0 /\ phase = "live")
        => /\ yielded \o cache \o wrapped = src
           /\ (lastOp = "next" /\ lastSignal = "stop") => yielded = src

\* C7 witness: a source longer than the lookahead, previewed after
\* iteration had started, pulled to its end.
C7_Witness ==
    /\ raiseAt = 0
    /\ phase = "live"
    /\ Len(src) > _preview_length + 1
    /\ previewed # <<>>
    /\ Head(previewed) = _TRUNCATED_BEGINNING
    /\ lastOp = "next"
    /\ lastSignal = "stop"
    /\ yielded = src

\* C8: for a mapping-typed Result with nested Results as values, fetch()
\* returns the source's mapping, every group with its own elements, whether
\* or not _preview() was called before.
C8_PreviewKeepsFetch ==
    mphase = "fetched" => mfetched = msrc

\* C9: after close() on a Result that was not exhausted, every later pull
\* signals end-of-data.
C9_ClosedIsExhausted ==
    (closedEarly /\ lastOp = "next") => lastSignal = "stop"

\* C10: when the function of map() raises on the element at position i,
\* the constructor called by execute() does not raise, and the error comes
\* from the pull that requests element i, after i - 1 elements were
\* returned.
C10_MapErrorAtItsPull ==
    raiseAt > 0
        => /\ phase # "ctor_raised"
           /\ lastSignal = "error"
                  => (lastOp = "next" /\ Len(yielded) = raiseAt - 1)

\* C11: every Query made by a chain method has the receiver's source,
\* args and keywords and the receiver's steps followed by exactly the one
\* new step, in containers of its own; and no Query, receiver or not,
\* differs from what it was when it was made, whatever was chained from it.
C11_ChainAddsOneStep ==
    \A i \in 1..Len(objs) :
        /\ View(i) = born[i].view
        /\ born[i].parent # 0 =>
               LET q == born[born[i].parent].view
               IN  /\ View(i).steps = Append(q.steps, born[i].step)
                   /\ View(i).source = q.source
                   /\ View(i).args = q.args
                   /\ View(i).kwds = q.kwds
                   /\ objs[i].steps # objs[born[i].parent].steps
                   /\ objs[i].kwds # objs[born[i].parent].kwds

\* C11 witness: two Queries chained from the same Query, which still has
\* the steps it had.
C11_Witness ==
    /\ Len(objs) = 3
    /\ born[2].parent = 1
    /\ born[3].parent = 1
    /\ born[2].step # born[3].step
    /\ View(1).steps = <<>>
    /\ View(2).steps = <<born[2].step>>
    /\ View(3).steps = <<born[3].step>>

\* C12: after execute() or fetch(), with optimize on or off, the Query has
\* the source, args, keywords and steps it had before the call, also when
\* the optimizer rewrote the plan.
C12_ExecuteKeepsQuery ==
    lastExec.self # 0 => View(lastExec.self) = lastExec.before

\* C12 witness: a select-then-aggregate Query executed with optimize on,
\* its plan rewritten.
C12_Witness ==
    /\ lastExec.self # 0
    /\ lastExec.optimize
    /\ lastExec.rewritten
    /\ Len(View(lastExec.self).steps) = 1
    /\ View(lastExec.self).steps[1].name = "sum"

C14_ExactlyOneStoreTypeError ==
    \A o \in BOOLEAN :
        (/\ qstate = "built"
         /\ outcome[o].ran
         /\ \/ outcome[o].given # "None" /\ qbound
            \/ outcome[o].given = "None" /\ ~qbound
            \/ outcome[o].given \notin {"None", "Select"})
            => outcome[o].out = Raised("TypeError")

\* C15: Query(store, columns, **where) raises the lookup error as soon as
\* a field named in the selection's key, in its value or in a filter
\* keyword is not a column of the store: no Query comes back and nothing
\* is executed.
C15_BoundLookupFailsFast ==
    (/\ qstate \notin {"none", "idle"}
     /\ qbound
     /\ \E name \in Range(_flatten(_parse_columns(qcolumns).key)
                          \o _flatten(_parse_columns(qcolumns).value)
                          \o keys(qwhere)) :
            name \notin Range(fieldnames))
        => /\ qstate = "LookupError"
           /\ qsource = "None"
           /\ \A o \in BOOLEAN : ~outcome[o].ran

\* C15 witness: a store given, the selection's fields all columns of it,
\* a filter keyword that is none; the lookup error was raised.
C15_Witness ==
    /\ qbound
    /\ qcolumns = Dict(<<Item(Str("A"), Str("B"))>>)
    /\ qwhere = <<[key |-> "X", val |-> Num(1)]>>
    /\ qstate = "LookupError"

\* C16: for a malformed selection passed together with a store, the error
\* is the validation error of the normalization, the one raised without a
\* store, whatever columns the store has.
C16_MalformedFailsAtNormalization ==
    (/\ qstate \notin {"none", "idle"}
     /\ qbound
     /\ _normalize_columns(qcolumns).err # "")
        => qstate = _normalize_columns(qcolumns).err

\* The rows the selection is over, and the key and the value of a row as
\* the selection names them.
SelectedRows == SelectSeq(table, LAMBDA r : Matches(r, selected.kwds))

KeyOf(r) ==
    LET key == _parse_columns(selected.columns).key
    IN  IF key.t = "str" THEN r[key.f]
        ELSE Tuple([i \in 1..Len(key.xs) |-> r[key.xs[i].f]])

ValueOf(r) ==
    LET inner == tuple(_parse_columns(selected.columns).value)[1]
    IN  IF inner.t = "str" THEN r[inner.f]
        ELSE Tuple([i \in 1..Len(inner.xs) |-> r[inner.xs[i].f]])

Count(xs, x) == Len(SelectSeq(xs, LAMBDA y : y = x))

\* C17: the grouped selection {key: [value]} fetches a mapping with one
\* entry per key value among the filtered rows, and the entry of a key has
\* the value of each row with that key, as often as there are such rows,
\* and nothing else; rows with equal keys need not be adjacent.
C17_GroupedSelectByKey ==
    (selected.called /\ _parse_columns(selected.columns).value.t = "list")
        => LET pairs == selected.out.xs
               rows == SelectedRows
           IN  /\ selected.out.t = "dict"
               /\ {pairs[i].xs[1] : i \in 1..Len(pairs)}
                      = {KeyOf(rows[j]) : j \in 1..Len(rows)}
               /\ \A i, j \in 1..Len(pairs) :
                      pairs[i].xs[1] = pairs[j].xs[1] => i = j
               /\ \A i \in 1..Len(pairs) :
                      LET group == SelectSeq(rows,
                              LAMBDA r : KeyOf(r) = pairs[i].xs[1])
                          values == [j \in 1..Len(group) |-> ValueOf(group[j])]
                      IN  /\ pairs[i].xs[2].t = "list"
                          /\ Len(pairs[i].xs[2].xs) = Len(values)
                          /\ \A j \in 1..Len(values) :
                                 Count(pairs[i].xs[2].xs, values[j])
                                     = Count(values, values[j])

\* C17 witness: three rows, the first and the third with the same key and
\* another key between them; the entry of that key has both values.
C17_Witness ==
    /\ selected.called
    /\ selected.columns = Dict(<<Item(Str("A"), List(<<Str("B")>>))>>)
    /\ selected.kwds = <<>>
    /\ Len(table) = 3
    /\ table[1].A = Num(1)
    /\ table[2].A = Text
    /\ table[3].A = Num(1)
    /\ table[1].B # table[3].B
    /\ Len(selected.out.xs) = 2
    /\ Len(selected.out.xs[1].xs[2].xs) = 2

\* C18: fetch() on a mapping-typed Result returns every key of the source
\* with all the elements of its group, those past the lookahead buffer
\* too, when the nested Results read from one shared iterator.
C18_FetchMaterializesGroups ==
    sphase = "fetched" => sfetched = ssrc

\* C18 witness: two groups on one iterator, each longer than the lookahead
\* buffer, fetched whole.
C18_Witness ==
    /\ sphase = "fetched"
    /\ Len(ssrc) = 2
    /\ Len(ssrc[1].xs) > _preview_length + 1
    /\ Len(ssrc[2].xs) > _preview_length + 1
    /\ sfetched = ssrc

\* The values of the collection an aggregate function was applied to that
\* are not null.
NonNull == SelectSeq(applied.data, LAMBDA x : x # None)

\* The worth of a value in a total: a number is worth itself, a text or a
\* blob that is no numeral is worth 0.0.
Worth(x) == IF x.t = "num" THEN x.v ELSE 0

RECURSIVE TotalOf(_)
TotalOf(xs) ==
    IF xs = <<>> THEN 0
    ELSE TotalOf(SubSeq(xs, 1, Len(xs) - 1)) + Worth(xs[Len(xs)])

\* C19: on every finite collection that may contain nulls, count returns
\* the number of values that are not null (0 and the empty string are
\* counted); sum returns the total of the values that are not null, and
\* null, never 0, when there is none; avg returns that total divided by
\* their number, and null exactly when there is none.
C19_NullsAreAbsent ==
    applied.called =>
        /\ applied.function = "_sqlite_count" =>
               applied.out = Num(Len(NonNull))
        /\ applied.function = "_sqlite_sum" =>
               applied.out = IF NonNull = <<>> THEN None
                             ELSE Num(TotalOf(NonNull))
        /\ applied.function = "_sqlite_avg" =>
               /\ applied.out = None <=> NonNull = <<>>
               /\ NonNull # <<>> =>
                      applied.out = Ratio(TotalOf(NonNull), Len(NonNull))

\* count was applied to a collection with a null, the number 0 and the
\* empty string, and returned 2.
C19_Witness ==
    /\ applied.called
    /\ applied.function = "_sqlite_count"
    /\ applied.data = <<None, Num(0), TextAt(0)>>
    /\ applied.out = Num(2)

\* a sorts before b: every number before every text and every text before
\* every blob, numbers by value, text and blobs by their place in the
\* collating order.
Kind(x) == IF x.t = "num" THEN 1 ELSE IF x.t = "str" THEN 2 ELSE 3

Before(a, b) == Kind(a) < Kind(b) \/ (Kind(a) = Kind(b) /\ a.v < b.v)

InNonNull(x) == \E i \in 1..Len(NonNull) : NonNull[i] = x

\* C20: on every finite collection, min and max return null exactly when
\* no value of the collection is not null; otherwise min returns a value
\* of it that is not null and before which none of them sorts, and max one
\* that sorts before none of them.
C20_MinMaxIgnoreNulls ==
    (applied.called /\ applied.function \in {"_sqlite_min", "_sqlite_max"})
        => /\ applied.out = None <=> NonNull = <<>>
           /\ NonNull # <<>> =>
                  /\ InNonNull(applied.out)
                  /\ \A i \in 1..Len(NonNull) :
                         IF applied.function = "_sqlite_min"
                         THEN ~Before(NonNull[i], applied.out)
                         ELSE ~Before(applied.out, NonNull[i])

\* min was applied to a collection of a text, a null and a greater number
\* and returned the number.
C20_Witness ==
    /\ applied.called
    /\ applied.function = "_sqlite_min"
    /\ applied.data = <<TextAt(0), None, Num(2)>>
    /\ applied.out = Num(2)

\* C21: for every selection that _normalize_columns returns for, the
\* normalized selection normalizes to itself:
\* normalize(normalize(s)) = normalize(s).
C21_NormalizeIdempotent ==
    (normalized.called /\ normalized.once.err = "")
        => normalized.twice = normalized.once

\* The names under which the connection has the function func.
NamesOf(func) == { n \in DOMAIN created : created[n] = func }

\* C22: on one Select, a predicate is registered at most once: its first
\* use in a filtered selection registers it under a name no function had
\* before, every later use returns the name it is registered under and
\* leaves _user_function_dict as it was, and _create_user_function of a
\* predicate that is registered raises ValueError and leaves
\* _user_function_dict as it was.
C22_RegisteredOnce ==
    /\ \A func \in Predicates : Cardinality(NamesOf(func)) <= 1
    /\ (lastUse.op = "select" /\ lastUse.first) =>
           /\ lastUse.err = ""
           /\ \A k \in DOMAIN lastUse.before :
                  lastUse.before[k] # lastUse.name
           /\ NamesOf(lastUse.func) = {lastUse.name}
           /\ _user_function_dict =
                  Store(lastUse.before, FuncKey(lastUse.func), lastUse.name)
    /\ (lastUse.op = "select" /\ ~lastUse.first) =>
           /\ lastUse.err = ""
           /\ lastUse.name = lastUse.before[FuncKey(lastUse.func)]
           /\ _user_function_dict = lastUse.before
    /\ (lastUse.op = "create" /\ ~lastUse.first) =>
           /\ lastUse.err = "ValueError"
           /\ _user_function_dict = lastUse.before

\* C30: a filtered selection with a predicate keeps the rows the predicate
\* answers true for, whatever predicates the Select was given before: no
\* two predicates share a registered function.
C30_RowsOfThePredicate ==
    lastUse.op = "select" =>
        /\ lastUse.err = ""
        /\ lastUse.rows = SelectSeq(RegistryTable,
                                    LAMBDA b : b \in lastUse.func.keeps)

\* C23: create_index with fields it has returned for before raises no
\* error and leaves the indexes of the store as they were; create_index
\* with a field the store does not have raises LookupError and creates no
\* index.
C23_CreateIndexIdempotent ==
    lastIndex.called =>
        /\ lastIndex.again =>
               (lastIndex.err = "" /\ indexes = lastIndex.before)
        /\ (\E i \in 1..Len(lastIndex.columns) :
                lastIndex.columns[i] \notin IndexFieldnames) =>
               (lastIndex.err = "LookupError" /\ indexes = lastIndex.before)

\* create_index('a b') was called a second time, after it made an index.
C23_Witness ==
    /\ lastIndex.called
    /\ lastIndex.again
    /\ lastIndex.columns = << <<"a", " ", "b">> >>
    /\ lastIndex.before # <<>>
    /\ indexes = lastIndex.before

\* C29: after create_index(*fields) returns without error the store has an
\* index that covers exactly those fields, whatever create_index calls
\* were made before.
C29_IndexCoversFields ==
    (lastIndex.called /\ lastIndex.err = "") =>
        \E n \in DOMAIN indexes : indexes[n] = lastIndex.columns

\* C25: every column name in the SQL that Select makes (SELECT list, WHERE
\* conditions, GROUP BY, ORDER BY, CREATE INDEX) is written as
\* _escape_field_name gives it, and so the statement runs for every field
\* of the table, used as a filter keyword or selected.
C25_EveryReferenceEscaped ==
    statement.called =>
        /\ \A i \in 1..Len(statement.references) :
               statement.references[i].text =
                   _escape_field_name(statement.references[i].name)
        /\ statement.err = ""

\* The step that gets the method called name from the source.
Fetch(name) ==
    _execution_step("getattr", <<RESULT_TOKEN, Name(name)>>, <<>>)

\* The SQL function for the Python function a step applies, "" for none.
SqlFunctionOf(step) ==
    IF step.function # "_apply_to_data" THEN ""
    ELSE IF step.args = <<Name("_sqlite_sum"), RESULT_TOKEN>> THEN "SUM"
    ELSE IF step.args = <<Name("_sqlite_count"), RESULT_TOKEN>> THEN "COUNT"
    ELSE IF step.args = <<Name("_sqlite_avg"), RESULT_TOKEN>> THEN "AVG"
    ELSE IF step.args = <<Name("_sqlite_min"), RESULT_TOKEN>> THEN "MIN"
    ELSE IF step.args = <<Name("_sqlite_max"), RESULT_TOKEN>> THEN "MAX"
    ELSE ""

\* The reference rewrite of a plan; <<>> is no optimization.
Rewrite(plan) ==
    LET rest == SubSeq(plan, 4, Len(plan))
    IN  IF Len(plan) < 3 \/ plan[1] # Fetch("_select") THEN <<>>
        ELSE IF SqlFunctionOf(plan[3]) # ""
        THEN <<Fetch("_select_aggregate"),
               [plan[2] EXCEPT
                   !.args = <<Name(SqlFunctionOf(plan[3]))>> \o @]>> \o rest
        ELSE IF plan[3].function = "_sqlite_distinct"
        THEN <<Fetch("_select_distinct"), plan[2]>> \o rest
        ELSE <<>>

\* C24: for every plan, _optimize returns the reference rewrite: for a
\* plan of three entries or more that starts with fetching _select and
\* whose third entry applies sum, count, avg, min or max (is the distinct
\* step), fetching _select_aggregate (_select_distinct), the second entry
\* with the SQL function name put before its args (unchanged), and the
\* entries from the fourth on; for every other plan, no optimization.
C24_OptimizeIsTheRewrite ==
    optimizing.called => optimizing.out = Rewrite(optimizing.plan)

\* _optimize was given the plan of select(...).sum().map(function) and
\* returned three entries, the first fetching _select_aggregate, the
\* second with SUM before the selection, the third the map step.
C24_Witness ==
    /\ optimizing.called
    /\ Len(optimizing.plan) = 4
    /\ optimizing.plan[3].args = <<Name("_sqlite_sum"), RESULT_TOKEN>>
    /\ optimizing.plan[4].function = "_map_data"
    /\ Len(optimizing.out) = 3
    /\ optimizing.out[1] = Fetch("_select_aggregate")
    /\ optimizing.out[2].args = <<Name("SUM"), List(<<Str("A")>>)>>
    /\ optimizing.out[3] = optimizing.plan[4]

\* C26: a nested Result pulled from the Result of a grouped selection
\* yields all the values of its group, also when the outer Result is
\* pulled or previewed again before the nested Result is used up and the
\* group has more rows than the cache holds.
C26_NestedYieldsItsGroup ==
    \A i \in 1..Len(held) :
        held[i].done => held[i].yielded = gsrc[held[i].k].xs

\* C27: Query.from_object(obj).execute() returns, for every list, tuple,
\* set and mapping obj, the empty ones too, a Result that fetches to a
\* collection equal to obj.
C27_FromObjectFetchesObj ==
    (fromObject.called /\ nonstringiter(fromObject.obj))
        => fromObject.out = fromObject.obj

\* C28: once the Result a map, filter or distinct step returned over an
\* upstream Result that was given a close callback has been closed
\* explicitly before it signalled StopIteration, the upstream callback has
\* been invoked.
C28_CloseReachesUpstream ==
    (/\ downstream.made
     /\ downstream.closed
     /\ downstream.early
     /\ upstream.given)
        => upstream.calls >= 1

====
